---- MODULE Spec2Model ----
(***************************************************************************)
(* Agent orchestration runtime of innomightlabs-cli: the two action loops  *)
(* (KrishnaAgent.send_message and PlanActObserveAgent.send_message), the   *)
(* reply parsing helpers they call, the conversation managers that hold    *)
(* and persist the log, the threads that file watchers add, the registry   *)
(* of the file watcher manager, the decorator Tool and the loop of main(). *)
(*                                                                         *)
(* Spec         one agent instance; a step is one iteration of a loop      *)
(* SpecLog      SlidingWindowConversationManager instances on one file     *)
(* SpecTokens   one TokenAwareConversationManager                          *)
(* SpecWatch    the main thread and the observer threads of the watchers   *)
(* SpecTool     one callable handed to the decorator Tool                  *)
(* SpecMain     one run of main(); a step is one pass of its loop          *)
(* SpecRegistry the threads that call one WatchdogFileWatcherManager       *)
(*                                                                         *)
(* Text is a sequence of tokens (strings).  A token is a run of plain      *)
(* characters, a whitespace run, a code fence, a well-formed JSON object   *)
(* or a fragment that contains an opening brace but is not JSON.           *)
(***************************************************************************)
EXTENDS Integers, Sequences, FiniteSets, TLC

VARIABLES
    runtime,            \* which agent class this instance is
    script,             \* the scripted model backend: replies in call order, the last one repeats
    calls,              \* llm.invoke calls made by this instance so far
    answers,            \* the scripted approver: answers in prompt order, the last one repeats
    asks,               \* approval prompts shown so far
    messages,           \* conversation_manager.messages
    persisted_count,    \* conversation_manager._persisted_count
    conversation_file,  \* characters of the conversation file, empty when the file is absent
    requests,           \* send_message calls started so far
    status,             \* position of the current send_message call
    invocations,        \* llm.invoke calls of the current request
    dispatched,         \* handlers called in the current request, in order
    yielded,            \* chunks the current request handed to its caller
    last,               \* what the last loop iteration did
    turn_counter,       \* KrishnaAgent.send_message local
    action,             \* KrishnaAgent.send_message local
    agent_iterations,   \* PlanActObserveAgent.send_message local
    user_choices,       \* PlanActObserveAgent.user_choices
    last_observation,   \* PlanActObserveAgent.send_message local
    final_output,       \* PlanActObserveAgent.send_message local
    persist_to_file,    \* SlidingWindowConversationManager._persist_to_file
    conversation_path,  \* kind of path held by SlidingWindowConversationManager._conversation_file
    instances,          \* managers constructed on the conversation file so far
    original,           \* the manager constructed before the current one, kept by its caller
    log_last,           \* what the last call on the manager did
    total_tokens,       \* TokenAwareConversationManager.total_tokens
    token_messages,     \* TokenAwareConversationManager.messages
    overflow_strategy,  \* TokenAwareConversationManager.overflow_strategy
    summarizer_func,    \* TokenAwareConversationManager.summarizer_func
    max_tokens,         \* TokenAwareConversationManager.max_tokens
    reserve_tokens,     \* TokenAwareConversationManager.reserve_tokens
    token_last,         \* what the last add_message of the token manager did
    watchers,           \* WatchdogFileWatcherManager._watchers: ids of the running observers
    thread_at,          \* position of the main thread and of every observer thread
    manager_log,        \* add_message calls on each conversation manager: the calling threads, in order
    pending_events,     \* file events queued in each observer
    python_unions,      \* how the interpreter represents X | None
    tool_func,          \* the callable handed to Tool: its parameters in order
    derived,            \* the BaseTool.tool_params that Tool returned, once it has
    prompt_script,      \* what the calls of prompt() in main() do, in call order
    main_log,           \* prompt, send_message and console.print calls of main(), in order
    main_at,            \* position of main(): in its loop, returned or left by an exception
    observers,          \* the WatcherInstance made for each id: created, _is_running, observer.stop() calls
    lock_owner,         \* the thread that holds WatchdogFileWatcherManager._lock
    caller_at,          \* the call of the manager each thread is in
    registry_log        \* the calls of the manager that returned, in order

agentvars == <<runtime, script, calls, answers, asks, requests, status,
               invocations, dispatched, yielded, last, turn_counter, action,
               agent_iterations, user_choices, last_observation, final_output>>

cmvars == <<messages, persisted_count, conversation_file>>

logvars == <<persist_to_file, conversation_path, instances, original, log_last>>

tokenvars == <<total_tokens, token_messages, overflow_strategy, summarizer_func,
               max_tokens, reserve_tokens, token_last>>

watchvars == <<watchers, thread_at, manager_log, pending_events>>

toolvars == <<python_unions, tool_func, derived>>

mainvars == <<prompt_script, main_log, main_at>>

registryvars == <<observers, lock_owner, caller_at, registry_log>>

vars == <<agentvars, cmvars, logvars, tokenvars, watchvars, toolvars, mainvars,
          registryvars>>

----------------------------------------------------------------------------
(* Bounds of the model *)

\* longest backend script
MaxScript == 2

\* longest approver script
MaxAnswers == 2

\* send_message calls per instance
MaxRequests == 2

\* iterations explored of a loop that has no bound of its own
MaxIterations == 30

\* add_message calls on one SlidingWindowConversationManager
MaxMessages == 2

\* managers constructed one after the other on one conversation file
MaxInstances == 2

\* add_message calls on one TokenAwareConversationManager
MaxAdds == 6

\* file watchers started in one process
MaxWatchers == 2

\* add_message calls recorded per conversation manager of the process
MaxLog == 3

\* largest window_size handed to fetch_conversation
MaxWindow == 3

\* parameters of a callable handed to Tool
MaxParams == 2

\* calls of prompt() in one run of main()
MaxPrompts == 3

\* threads that call the file watcher manager
MaxCallers == 2

\* calls of the file watcher manager in one run
MaxCalls == 4


----------------------------------------------------------------------------
(* Program constants *)

MAX_AGENT_LOOPS == 28

PAO_MAX_AGENT_LOOPS == 28

----------------------------------------------------------------------------
(* Python values *)

PyNone == [t |-> "none", i |-> 0, s |-> <<>>]

PyInt(n) == [t |-> "int", i |-> n, s |-> <<>>]

PyStr(text) == [t |-> "str", i |-> 0, s |-> text]

Digits == <<"0", "1", "2", "3", "4", "5", "6", "7", "8", "9">>

\* str(value) for the values the tools of the model return
PyToStr(v) ==
    CASE v.t = "int" -> <<Digits[v.i + 1]>>
      [] v.t = "str" -> v.s
      [] OTHER -> <<"None">>

\* Python truthiness of a str
Truthy(text) == text # <<>>

\* the text of a JSON string value: the empty string has no characters
Text(value) == IF value = "" THEN <<>> ELSE <<value>>

----------------------------------------------------------------------------
(* Tokens and the JSON objects a reply may carry *)

\* a fence is three backquote characters, written here with apostrophes
FENCE_JSON == "'''json"

FENCE == "'''"

WS == " "

NOT_JSON == "Use {braces"

KJ_ADD_T == "{\"tool\":{\"tool_name\":\"add\",\"tool_params\":{\"a\":2,\"b\":3}},\"request_heartbeat\":true}"

KJ_ADD_F == "{\"tool\":{\"tool_name\":\"add\",\"tool_params\":{\"a\":2,\"b\":3}},\"request_heartbeat\":false}"

KJ_ADD_ECHO == "{\"tool\":{\"tool_name\":\"add\",\"tool_params\":<schema of add>},\"request_heartbeat\":true}"

KJ_ADD_BAD == "{\"tool\":{\"tool_name\":\"add\",\"tool_params\":{\"a\":2}},\"request_heartbeat\":true}"

KJ_FAIL_T == "{\"tool\":{\"tool_name\":\"fail\",\"tool_params\":{}},\"request_heartbeat\":true}"

KJ_FAIL_F == "{\"tool\":{\"tool_name\":\"fail\",\"tool_params\":{}},\"request_heartbeat\":false}"

KJ_SEND_T == "{\"tool\":{\"tool_name\":\"send_message\",\"tool_params\":{\"content\":\"hi\"}},\"request_heartbeat\":true}"

KJ_SEND_F == "{\"tool\":{\"tool_name\":\"send_message\",\"tool_params\":{\"content\":\"hi\"}},\"request_heartbeat\":false}"

KJ_NOPE == "{\"tool\":{\"tool_name\":\"nope\",\"tool_params\":{}},\"request_heartbeat\":true}"

KJ_ECHO_EMPTY == "{\"tool\":{\"tool_name\":\"echo\",\"tool_params\":{\"content\":\"\"}},\"request_heartbeat\":false}"

KJ_NOPE_F == "{\"tool\":{\"tool_name\":\"nope\",\"tool_params\":{}},\"request_heartbeat\":false}"

KJ_NO_TOOL == "{\"request_heartbeat\":true}"

KJ_PARAMS_STR == "{\"tool\":{\"tool_name\":\"add\",\"tool_params\":\"2,3\"},\"request_heartbeat\":true}"

PJ_ADD == "{\"plan\":[{\"thought\":\"t\",\"tool\":{\"tool_name\":\"add\",\"tool_params\":{\"a\":2,\"b\":3}}}]}"

PJ_ADD_ECHO == "{\"plan\":[{\"thought\":\"t\",\"tool\":{\"tool_name\":\"add\",\"tool_params\":<schema of add>}}]}"

PJ_ECHO == "{\"plan\":[{\"thought\":\"t\",\"tool\":{\"tool_name\":\"echo\",\"tool_params\":{\"content\":\"hi\"}}}]}"

PJ_ECHO2 == "{\"plan\":[<echo hi>,<echo hi>]}"

PJ_FAIL == "{\"plan\":[{\"thought\":\"t\",\"tool\":{\"tool_name\":\"fail\",\"tool_params\":{}}}]}"

PJ_NOPE == "{\"plan\":[{\"thought\":\"t\",\"tool\":{\"tool_name\":\"nope\",\"tool_params\":{}}}]}"

PJ_NO_PLAN == "{\"thought\":\"t\"}"

PJ_PARAMS_STR == "{\"plan\":[{\"thought\":\"t\",\"tool\":{\"tool_name\":\"add\",\"tool_params\":\"2,3\"}}]}"

KrishnaJson == {KJ_ADD_T, KJ_ADD_F, KJ_ADD_ECHO, KJ_ADD_BAD, KJ_FAIL_T, KJ_FAIL_F,
                KJ_SEND_T, KJ_SEND_F, KJ_NOPE, KJ_NOPE_F, KJ_NO_TOOL, KJ_PARAMS_STR,
                KJ_ECHO_EMPTY}

PlanJson == {PJ_ADD, PJ_ADD_ECHO, PJ_ECHO, PJ_ECHO2, PJ_FAIL, PJ_NOPE, PJ_NO_PLAN, PJ_PARAMS_STR}

JsonObjects == KrishnaJson \cup PlanJson

\* the token holds an opening brace: text.find("{") stops in it
HasBrace(tok) == tok \in JsonObjects \cup {NOT_JSON}

\* decoder.raw_decode succeeds at the brace of the token
RawDecodes(tok) == tok \in JsonObjects

IsSpace(tok) == tok = WS

----------------------------------------------------------------------------
(* Tool descriptors *)

EmptyDict == <<>>

AddSchema ==
    [type |-> "object",
     properties |-> [a |-> [type |-> "integer"], b |-> [type |-> "integer"]],
     additionalProperties |-> FALSE,
     required |-> <<"a", "b">>]

ContentSchema ==
    [type |-> "object",
     properties |-> [content |-> [type |-> "string"]],
     additionalProperties |-> FALSE,
     required |-> <<"content">>]

NoParamsSchema ==
    [type |-> "object", properties |-> EmptyDict, additionalProperties |-> FALSE]

BaseTool(name, schema, handler) ==
    [tool_name |-> name, tool_params |-> schema, func |-> handler]

add == BaseTool("add", AddSchema, "add")

echo == BaseTool("echo", ContentSchema, "echo")

fail == BaseTool("fail", NoParamsSchema, "fail")

print_message == BaseTool("print_message", ContentSchema, "print_message")

send_message == BaseTool("send_message", ContentSchema, "send_message")

\* a second tool registered under the name echo: its handler is the function
\* of print_message
echo_again == BaseTool("echo", ContentSchema, "print_message")

\* the tools handed to the constructor of either agent
ConfiguredTools == <<add, echo, fail, echo_again>>

Returned(v) == [raised |-> "", value |-> v]

Raised(exc) == [raised |-> exc, value |-> PyNone]

\* func(**params): the handlers of the model
Call(func, params) ==
    CASE func = "add" ->
            IF DOMAIN params = {"a", "b"}
            THEN Returned(PyInt(params.a + params.b))
            ELSE Raised("TypeError")
      [] func = "echo" ->
            IF DOMAIN params = {"content"}
            THEN Returned(PyStr(Text(params.content)))
            ELSE Raised("TypeError")
      [] func \in {"print_message", "send_message"} ->
            IF DOMAIN params = {"content"}
            THEN Returned(PyNone)
            ELSE Raised("TypeError")
      [] OTHER ->
            IF DOMAIN params = {}
            THEN Raised("RuntimeError")
            ELSE Raised("TypeError")

----------------------------------------------------------------------------
(* Reply parsing *)

ToolCall(name, is_object, params) ==
    [tool_name |-> name, params_is_object |-> is_object, tool_params |-> params]

NoToolCall == ToolCall("", FALSE, EmptyDict)

Payload(has_tool, tool, heartbeat, has_plan, plan) ==
    [has_tool |-> has_tool, tool |-> tool, request_heartbeat |-> heartbeat,
     has_plan |-> has_plan, plan |-> plan]

KrishnaPayload(tool, heartbeat) == Payload(TRUE, tool, heartbeat, FALSE, <<>>)

PlanPayload(plan) == Payload(FALSE, NoToolCall, FALSE, TRUE, plan)

AddArgs == [a |-> 2, b |-> 3]

ContentArgs == [content |-> "hi"]

\* json.loads of the JSON objects of the model
json_loads(text) ==
    CASE text = KJ_ADD_T -> KrishnaPayload(ToolCall("add", TRUE, AddArgs), TRUE)
      [] text = KJ_ADD_F -> KrishnaPayload(ToolCall("add", TRUE, AddArgs), FALSE)
      [] text = KJ_ADD_ECHO -> KrishnaPayload(ToolCall("add", TRUE, AddSchema), TRUE)
      [] text = KJ_ADD_BAD -> KrishnaPayload(ToolCall("add", TRUE, [a |-> 2]), TRUE)
      [] text = KJ_FAIL_T -> KrishnaPayload(ToolCall("fail", TRUE, EmptyDict), TRUE)
      [] text = KJ_FAIL_F -> KrishnaPayload(ToolCall("fail", TRUE, EmptyDict), FALSE)
      [] text = KJ_SEND_T -> KrishnaPayload(ToolCall("send_message", TRUE, ContentArgs), TRUE)
      [] text = KJ_SEND_F -> KrishnaPayload(ToolCall("send_message", TRUE, ContentArgs), FALSE)
      [] text = KJ_NOPE -> KrishnaPayload(ToolCall("nope", TRUE, EmptyDict), TRUE)
      [] text = KJ_ECHO_EMPTY ->
            KrishnaPayload(ToolCall("echo", TRUE, [content |-> ""]), FALSE)
      [] text = KJ_NOPE_F -> KrishnaPayload(ToolCall("nope", TRUE, EmptyDict), FALSE)
      [] text = KJ_NO_TOOL -> Payload(FALSE, NoToolCall, TRUE, FALSE, <<>>)
      [] text = KJ_PARAMS_STR -> KrishnaPayload(ToolCall("add", FALSE, EmptyDict), TRUE)
      [] text = PJ_ADD -> PlanPayload(<<ToolCall("add", TRUE, AddArgs)>>)
      [] text = PJ_ADD_ECHO -> PlanPayload(<<ToolCall("add", TRUE, AddSchema)>>)
      [] text = PJ_ECHO -> PlanPayload(<<ToolCall("echo", TRUE, ContentArgs)>>)
      [] text = PJ_ECHO2 -> PlanPayload(<<ToolCall("echo", TRUE, ContentArgs),
                                          ToolCall("echo", TRUE, ContentArgs)>>)
      [] text = PJ_FAIL -> PlanPayload(<<ToolCall("fail", TRUE, EmptyDict)>>)
      [] text = PJ_NOPE -> PlanPayload(<<ToolCall("nope", TRUE, EmptyDict)>>)
      [] text = PJ_PARAMS_STR -> PlanPayload(<<ToolCall("add", FALSE, EmptyDict)>>)
      [] OTHER -> Payload(FALSE, NoToolCall, FALSE, FALSE, <<>>)

\* the scan of extract_json_from_text from token i on
RECURSIVE ScanJson(_, _)
ScanJson(text, i) ==
    IF i > Len(text) THEN ""
    ELSE IF HasBrace(text[i]) /\ RawDecodes(text[i]) THEN text[i]
    ELSE ScanJson(text, i + 1)

extract_json_from_text(text) == ScanJson(text, 1)

\* index of the first occurrence of tok in text, 0 when absent: str.find
RECURSIVE Find(_, _, _)
Find(text, tok, i) ==
    IF i > Len(text) THEN 0
    ELSE IF text[i] = tok THEN i
    ELSE Find(text, tok, i + 1)

RemoveAt(text, i) == SubSeq(text, 1, i - 1) \o SubSeq(text, i + 1, Len(text))

\* str.replace(tok, "")
Without(text, tok) == SelectSeq(text, LAMBDA t : t # tok)

RECURSIVE LStrip(_)
LStrip(text) ==
    IF text # <<>> /\ IsSpace(Head(text)) THEN LStrip(Tail(text)) ELSE text

RECURSIVE RStrip(_)
RStrip(text) ==
    IF text # <<>> /\ IsSpace(text[Len(text)])
    THEN RStrip(SubSeq(text, 1, Len(text) - 1))
    ELSE text

Strip_LeftOnly(text) == LStrip(text)

\* str.strip
Strip(text) == RStrip(LStrip(text))

extract_user_facing_text(raw_reply, action_json) ==
    IF raw_reply = <<>> THEN <<>>
    ELSE LET idx == IF action_json # "" THEN Find(raw_reply, action_json, 1) ELSE 0
             remainder == IF idx # 0 THEN RemoveAt(raw_reply, idx) ELSE raw_reply
         IN Strip(Without(Without(remainder, FENCE_JSON), FENCE))

\* Action.model_validate of KrishnaAgent: a tool with a name and an object of parameters
ActionModelValidate(payload) ==
    payload.has_tool /\ payload.tool.params_is_object

\* ActionPlan.model_validate_json: a plan whose actions each hold such a tool
ActionPlanModelValidate(payload) ==
    /\ payload.has_plan
    /\ \A i \in 1..Len(payload.plan) : payload.plan[i].params_is_object

----------------------------------------------------------------------------
(* Messages *)

Message(role, content) == [role |-> role, content |-> content]

\* Message(content=value) of pydantic: content must be a str
MessageContentValid(v) == v.t = "str"

----------------------------------------------------------------------------
(* The scripted environment: model backend and approver *)

Reply(is_str, content) == [is_str |-> is_str, content |-> content]

NonText == Reply(FALSE, <<>>)

PlainText == Reply(TRUE, <<"Result is 5">>)

FencedText == Reply(TRUE, <<"Run", WS, FENCE, "ls", FENCE, WS>>)

WithJson(json) == Reply(TRUE, <<NOT_JSON, WS, FENCE_JSON, json, FENCE>>)

KrishnaReplies == {NonText, PlainText, FencedText} \cup {WithJson(j) : j \in KrishnaJson}

PlanReplies == {NonText, PlainText, FencedText} \cup {WithJson(j) : j \in PlanJson}

Scripts(S, n) == UNION {[1..k -> S] : k \in 1..n}

\* the k-th element of a script whose last element repeats
At(scr, k) == scr[IF k <= Len(scr) THEN k ELSE Len(scr)]

Choices == {"y", "n", "s", "c"}

Correction == <<"do something else">>

NoReply == Reply(FALSE, <<>>)

Did(op, reply, appended, called, prompts) ==
    [op |-> op, reply |-> reply, appended |-> appended, called |-> called,
     prompts |-> prompts]

----------------------------------------------------------------------------
(* KrishnaAgent *)

\* KrishnaAgent.__init__: print_message and send_message are always available
WithTool(tools, tool) ==
    IF \E i \in 1..Len(tools) : tools[i].tool_name = tool.tool_name
    THEN tools
    ELSE Append(tools, tool)

KrishnaTools == WithTool(WithTool(ConfiguredTools, print_message), send_message)

\* position in tools of the tool _resolve_tool returns, 0 for None
RECURSIVE ResolveFrom(_, _, _)
ResolveFrom(tools, tool_name, i) ==
    IF i > Len(tools) THEN 0
    ELSE IF tools[i].tool_name = tool_name THEN i
    ELSE ResolveFrom(tools, tool_name, i + 1)

resolve_tool_Last(tools, tool_name) ==
    IF \E i \in DOMAIN tools : tools[i].tool_name = tool_name
    THEN CHOOSE i \in DOMAIN tools :
            /\ tools[i].tool_name = tool_name
            /\ \A j \in DOMAIN tools : tools[j].tool_name = tool_name => j <= i
    ELSE 0

\* KrishnaAgent._resolve_tool
resolve_tool(tools, tool_name) == ResolveFrom(tools, tool_name, 1)

None == [is_none |-> TRUE, request_heartbeat |-> FALSE]

Action(payload) == [is_none |-> FALSE, request_heartbeat |-> payload.request_heartbeat]

ITERATION_FAILURE == <<"Maximum tool iterations exceeded. Please refine the request.">>

NON_TEXT_FAILURE == <<"Model returned a non-textual response. Unable to continue.">>

NO_JSON_NOTICE == <<"Your previous reply did not include the required JSON action. Respond with valid JSON.">>

VALIDATION_NOTICE == <<"Action schema validation failed. Ensure the response follows the required format.">>

UnavailableNotice(tool_name, tools) ==
    <<"Tool '", tool_name, "' is unavailable. Choose one of: ">>
        \o [i \in 1..Len(tools) |-> tools[i].tool_name]

SchemaEchoNotice(tool_name) ==
    <<"Do not return the parameter schema for '", tool_name, "'. Provide actual argument values.">>

append_system_message(content) == Message("system", content)

append_tool_error_AsUser(tool_name, message) ==
    Message("user", <<"ERROR[", tool_name, "]: ", message>>)

\* KrishnaAgent._append_tool_error
append_tool_error(tool_name, message) ==
    Message("tool", <<"ERROR[", tool_name, "]: ", message>>)

format_tool_feedback(params, tool_response) ==
    IF tool_response.t # "none" THEN PyToStr(tool_response)
    ELSE IF "content" \in DOMAIN params THEN Text(params.content)
    ELSE <<"Tool execution completed.">>

LoopContinues_IgnoresHeartbeat(act) == act.is_none

\* the condition of the while loop
LoopContinues(act) == act.is_none \/ act.request_heartbeat

LimitExceeded_OffByOne(counter) == counter > MAX_AGENT_LOOPS + 1

LimitExceeded(counter) == counter > MAX_AGENT_LOOPS

FreshCounter_Carried(counter) == counter

\* turn_counter = 0 at the start of send_message
FreshCounter(counter) == 0

ActionAfterError_Kept(act) == act

\* action = None in both except clauses around the handler call
ActionAfterError(act) == None

ActionAfterRejection_Kept(act) == act

\* action = None before every continue that follows a rejected reply
ActionAfterRejection(act) == None

IsSchemaEcho(params, tool) == params = tool.tool_params

Surfaced_Always(tool_name, feedback) == Truthy(feedback)

\* the condition of the yield that follows a dispatch
Surfaced(tool_name, feedback) ==
    tool_name \notin {"print_message", "send_message"} /\ Truthy(feedback)

KResult(appended, act, called, chunks, st) ==
    [appended |-> appended, action |-> act, called |-> called,
     chunks |-> chunks, status |-> st]

\* the body of the loop after the iteration check, for one reply of the backend
KrishnaIteration(reply, previous) ==
    IF ~reply.is_str
    THEN KResult(<<append_system_message(NON_TEXT_FAILURE)>>, None, <<>>,
                 <<NON_TEXT_FAILURE>>, "failed_nontext")
    ELSE
    LET assistant == Message("assistant", reply.content)
        action_json == extract_json_from_text(reply.content)
        payload == json_loads(action_json)
        Continue(appended, act, called) ==
            KResult(appended, act, called, <<>>,
                    IF LoopContinues(act) THEN "running" ELSE "done")
        Rejected(notice, act) ==
            Continue(<<assistant, append_system_message(notice)>>,
                     ActionAfterRejection(act), <<>>)
    IN
    IF action_json = "" THEN Rejected(NO_JSON_NOTICE, previous)
    ELSE IF ~ActionModelValidate(payload) THEN Rejected(VALIDATION_NOTICE, previous)
    ELSE
    LET tool_name == payload.tool.tool_name
        params == payload.tool.tool_params
        idx == resolve_tool(KrishnaTools, tool_name)
        selected_tool == KrishnaTools[idx]
        outcome == Call(selected_tool.func, params)
        tool_feedback == format_tool_feedback(params, outcome.value)
        act == Action(payload)
    IN
    IF idx = 0 THEN Rejected(UnavailableNotice(tool_name, KrishnaTools), act)
    ELSE IF IsSchemaEcho(params, selected_tool) THEN Rejected(SchemaEchoNotice(tool_name), act)
    ELSE IF outcome.raised = "TypeError"
    THEN Continue(<<assistant, append_tool_error(tool_name, "Invalid arguments")>>,
                  ActionAfterError(act), <<selected_tool.func>>)
    ELSE IF outcome.raised # ""
    THEN Continue(<<assistant, append_tool_error(tool_name, "Execution error")>>,
                  ActionAfterError(act), <<selected_tool.func>>)
    ELSE KResult(<<assistant, Message("tool", tool_feedback)>>, act,
                 <<selected_tool.func>>,
                 IF Surfaced(tool_name, tool_feedback) THEN <<tool_feedback>> ELSE <<>>,
                 IF LoopContinues(act) THEN "running" ELSE "done")

----------------------------------------------------------------------------
(* SlidingWindowConversationManager and its conversation file.  The file   *)
(* is a sequence of characters: a line feed, the punctuation of a JSON     *)
(* object, a role, or a run of characters of a content string.             *)

LF == "\n"

CR == "\r"

DQ == "\""

ESC_LF == "\\n"

ESC_DQ == "\\\""

OPEN == "{"

COLON == ":"

CLOSE == "}"

Escape_None(text) == text

\* the JSON string escapes of the characters a content may hold
Escape(text) ==
    [i \in 1..Len(text) |->
        CASE text[i] = LF -> ESC_LF
          [] text[i] = DQ -> ESC_DQ
          [] OTHER -> text[i]]

Unescape(text) ==
    [i \in 1..Len(text) |->
        CASE text[i] = ESC_LF -> LF
          [] text[i] = ESC_DQ -> DQ
          [] OTHER -> text[i]]

\* Message.model_dump_json: one JSON object, no line feed inside
model_dump_json(message) ==
    <<OPEN, message.role, COLON, DQ>> \o Escape(message.content) \o <<DQ, CLOSE>>

\* Message.model_validate of a decoded object
model_validate(payload) == Message(payload.role, payload.content)

\* JSONDecoder.raw_decode at the start of buffer: the object and the index after it
raw_decode(buffer) ==
    LET closing == Find(buffer, DQ, 5)
    IN IF /\ Len(buffer) >= 6
          /\ buffer[1] = OPEN
          /\ buffer[3] = COLON
          /\ buffer[4] = DQ
          /\ closing # 0
          /\ closing < Len(buffer)
          /\ buffer[closing + 1] = CLOSE
       THEN [ok |-> TRUE,
             payload |-> [role |-> buffer[2],
                          content |-> Unescape(SubSeq(buffer, 5, closing - 1))],
             index |-> closing + 1]
       ELSE [ok |-> FALSE, payload |-> [role |-> "", content |-> <<>>], index |-> 0]

\* _decode_ndjson_line: every object of the line, or a ValueError
RECURSIVE decode_ndjson_line(_)
decode_ndjson_line(buffer) ==
    IF buffer = <<>> THEN [ok |-> TRUE, payloads |-> <<>>]
    ELSE LET first == raw_decode(buffer)
             rest == decode_ndjson_line(
                         LStrip(SubSeq(buffer, first.index + 1, Len(buffer))))
         IN IF ~first.ok \/ ~rest.ok
            THEN [ok |-> FALSE, payloads |-> <<>>]
            ELSE [ok |-> TRUE, payloads |-> <<first.payload>> \o rest.payloads]

\* the lines a text file yields when iterated, without their line feed
RECURSIVE FileLines(_)
FileLines(file) ==
    IF file = <<>> THEN <<>>
    ELSE LET end == Find(file, LF, 1)
         IN IF end = 0 THEN <<file>>
            ELSE <<SubSeq(file, 1, end - 1)>>
                     \o FileLines(SubSeq(file, end + 1, Len(file)))

\* the loop of __init__ over the lines of the file
RECURSIVE LoadLines(_)
LoadLines(lines) ==
    IF lines = <<>> THEN [ok |-> TRUE, messages |-> <<>>]
    ELSE LET raw_line == Strip(Head(lines))
             here == IF raw_line = <<>>
                     THEN [ok |-> TRUE, payloads |-> <<>>]
                     ELSE decode_ndjson_line(raw_line)
             rest == LoadLines(Tail(lines))
         IN IF ~here.ok \/ ~rest.ok
            THEN [ok |-> FALSE, messages |-> <<>>]
            ELSE [ok |-> TRUE,
                  messages |-> [i \in 1..Len(here.payloads) |->
                                   model_validate(here.payloads[i])]
                               \o rest.messages]

\* "\n".join(serialized)
RECURSIVE Join(_)
Join(serialized) ==
    IF serialized = <<>> THEN <<>>
    ELSE IF Len(serialized) = 1 THEN serialized[1]
    ELSE serialized[1] \o <<LF>> \o Join(Tail(serialized))

\* _rewrite_history_file
rewrite_history_file(msgs) ==
    Join([i \in 1..Len(msgs) |-> model_dump_json(msgs[i])]) \o <<LF>>

PathKinds == {"default", "relative"}

\* os.path.exists(f"{ROOT}/.krishna/{self._conversation_file}"): the default
\* path and every absolute path start with a slash, so the probed path lies
\* under ROOT/.krishna and holds no file; a bare file name, with the process
\* started in ROOT/.krishna, names the conversation file itself
path_exists(path, file) == path = "relative" /\ file # <<>>

LoadedCursor_PastEnd(loaded) == Len(loaded) + 1

\* self._persisted_count = len(self.messages) after the load
LoadedCursor(loaded) == Len(loaded)

\* SlidingWindowConversationManager.__init__
SlidingWindowInit(persist, path, file) ==
    IF ~persist \/ ~path_exists(path, file)
    THEN [messages |-> <<>>, count |-> 0, file |-> file]
    ELSE LET loaded == LoadLines(FileLines(file)).messages
         IN [messages |-> loaded,
             count |-> LoadedCursor(loaded),
             file |-> IF loaded # <<>> THEN rewrite_history_file(loaded) ELSE file]

\* list[-window_size:]
LastOf(seq, window_size) ==
    IF window_size = 0 \/ window_size >= Len(seq) THEN seq
    ELSE SubSeq(seq, Len(seq) - window_size + 1, Len(seq))

fetch_conversation_Unfiltered(msgs, window_size) == LastOf(msgs, window_size)

\* SlidingWindowConversationManager.fetch_conversation
fetch_conversation(msgs, window_size) ==
    LastOf(SelectSeq(msgs, LAMBDA m : m.role \notin {"system"}), window_size)

NewMessages_FromStart(msgs, count) == msgs

\* self.messages[self._persisted_count :]
NewMessages(msgs, count) == SubSeq(msgs, count + 1, Len(msgs))

CursorAfterWrite_Kept(msgs, count) == count

\* self._persisted_count = len(self.messages) after the write
CursorAfterWrite(msgs, count) == Len(msgs)

Saved(count, file, wrote) == [count |-> count, file |-> file, wrote |-> wrote]

finalize_NotRun(persist, msgs, count, file) == Saved(count, file, FALSE)

\* SlidingWindowConversationManager.finalize
finalize(persist, msgs, count, file) ==
    IF ~persist THEN Saved(count, file, FALSE)
    ELSE IF count >= Len(msgs) THEN Saved(count, file, FALSE)
    ELSE
    LET new_messages == NewMessages(msgs, count)
        kept == SelectSeq(new_messages, LAMBDA m : m.role # "system")
        serialized == [i \in 1..Len(kept) |-> model_dump_json(kept[i])]
        needs_leading_newline ==
            file # <<>> /\ file[Len(file)] \notin {LF, CR}
    IN IF new_messages = <<>> THEN Saved(count, file, FALSE)
       ELSE Saved(CursorAfterWrite(msgs, count),
                  file \o (IF needs_leading_newline THEN <<LF>> ELSE <<>>)
                       \o Join(serialized) \o <<LF>>,
                  TRUE)

----------------------------------------------------------------------------
(* PlanActObserveAgent *)

PaoTools == ConfiguredTools

VALIDATION_ERROR == <<"Validation Error! Provider a plan in proper json format.">>

DENIED == <<"User denied tool execution.">>

ToolUseRole == "tool_use[ID=#]"

DeniedRole(tool_name) == "tool_use[tool_name=" \o tool_name \o " ID=#]"

\* position of selected_tool[0] in tools, 0 when the filter selects nothing
selected_tool(tools, tool_name) == ResolveFrom(tools, tool_name, 1)

ask_approval_DenyApproves(tool_name, choices, answer) ==
    IF tool_name \in choices
    THEN [response |-> "approve", prompted |-> FALSE, choices |-> choices]
    ELSE IF answer = "s"
    THEN [response |-> "approve", prompted |-> TRUE, choices |-> choices \cup {tool_name}]
    ELSE IF answer = "c"
    THEN [response |-> "correct", prompted |-> TRUE, choices |-> choices]
    ELSE [response |-> "approve", prompted |-> TRUE, choices |-> choices]

Remembered_Never(tool_name, choices) == FALSE

\* self.user_choices.get(tool_name)
Remembered(tool_name, choices) == tool_name \in choices

\* _ask_approval: the answer acted on, whether the approver was prompted,
\* and the choices remembered afterwards
ask_approval(tool_name, choices, answer) ==
    IF Remembered(tool_name, choices)
    THEN [response |-> "approve", prompted |-> FALSE, choices |-> choices]
    ELSE IF answer = "y"
    THEN [response |-> "approve", prompted |-> TRUE, choices |-> choices]
    ELSE IF answer = "s"
    THEN [response |-> "approve", prompted |-> TRUE, choices |-> choices \cup {tool_name}]
    ELSE IF answer = "c"
    THEN [response |-> "correct", prompted |-> TRUE, choices |-> choices]
    ELSE [response |-> "deny", prompted |-> TRUE, choices |-> choices]

Caught_Nothing(exc) == FALSE

\* an exception the except clause of the loop catches
Caught(exc) == exc = "ValidationError"

CorrectionMessage_AsDenial(user_response) == Message(ToolUseRole, DENIED)

\* the message added for an answer of _ask_approval that is a str
CorrectionMessage(user_response) == Message("user", user_response)

PlanState(choices, asked, observation, appended, called, prompts, raised) ==
    [choices |-> choices, asks |-> asked, observation |-> observation,
     appended |-> appended, called |-> called, prompts |-> prompts,
     raised |-> raised]

\* one action of the plan
PlanStep(act, st, answer_script) ==
    LET idx == selected_tool(PaoTools, act.tool_name)
        tool == PaoTools[idx]
        approval == ask_approval(act.tool_name, st.choices, At(answer_script, st.asks + 1))
        asked == IF approval.prompted THEN st.asks + 1 ELSE st.asks
        prompts == IF approval.prompted
                   THEN Append(st.prompts, [tool_name |-> act.tool_name,
                                            answer |-> At(answer_script, st.asks + 1)])
                   ELSE st.prompts
        outcome == Call(tool.func, act.tool_params)
        called == Append(st.called, tool.func)
    IN
    IF idx = 0 THEN st
    ELSE IF approval.response = "correct"
    THEN PlanState(approval.choices, asked, st.observation,
                   Append(st.appended, CorrectionMessage(Correction)),
                   st.called, prompts, "")
    ELSE IF approval.response = "approve"
    THEN IF outcome.raised # ""
         THEN PlanState(approval.choices, asked, st.observation, st.appended,
                        called, prompts, outcome.raised)
         ELSE IF ~MessageContentValid(outcome.value)
         THEN PlanState(approval.choices, asked,
                        st.observation \o PyToStr(outcome.value), st.appended,
                        called, prompts, "ValidationError")
         ELSE PlanState(approval.choices, asked,
                        st.observation \o PyToStr(outcome.value),
                        Append(st.appended, Message(ToolUseRole, outcome.value.s)),
                        called, prompts, "")
    ELSE PlanState(approval.choices, asked, st.observation,
                   Append(st.appended, Message(DeniedRole(act.tool_name), DENIED)),
                   st.called, prompts, "")

\* the for loop over action_plan.plan, left at the first exception
RECURSIVE RunPlan(_, _, _, _)
RunPlan(plan, i, st, answer_script) ==
    IF i > Len(plan) \/ st.raised # "" THEN st
    ELSE RunPlan(plan, i + 1, PlanStep(plan[i], st, answer_script), answer_script)

PResult(st, st_status, finalized, output) ==
    [choices |-> st.choices, asks |-> st.asks, observation |-> st.observation,
     appended |-> st.appended, called |-> st.called, prompts |-> st.prompts,
     status |-> st_status, finalized |-> finalized, output |-> output]

\* the body of the while loop for one reply of the backend
PaoIteration(reply, choices, asked, observation, answer_script) ==
    LET st0 == PlanState(choices, asked, observation, <<>>, <<>>, <<>>, "")
    IN
    IF ~reply.is_str THEN PResult(st0, "running", FALSE, <<>>)
    ELSE
    LET plan == extract_json_from_text(reply.content)
        response == extract_user_facing_text(reply.content, plan)
        assistant == Message("assistant", response)
        st1 == [st0 EXCEPT !.appended = <<assistant>>]
        payload == json_loads(plan)
        st2 == RunPlan(payload.plan, 1, st1, answer_script)
        recovered(st) ==
            [st EXCEPT !.appended = Append(@, Message("user", VALIDATION_ERROR))]
    IN
    IF plan = "" THEN PResult(st1, "returned", TRUE, response)
    ELSE IF ~ActionPlanModelValidate(payload)
    THEN IF Caught("ValidationError")
         THEN PResult(recovered(st1), "running", FALSE, <<>>)
         ELSE PResult(st1, "raised", FALSE, <<>>)
    ELSE IF st2.raised = "" THEN PResult(st2, "running", FALSE, <<>>)
    ELSE IF Caught(st2.raised) THEN PResult(recovered(st2), "running", FALSE, <<>>)
    ELSE PResult(st2, "raised", FALSE, <<>>)

----------------------------------------------------------------------------
(* TokenAwareConversationManager *)

\* token_count is None
NO_COUNT == -1

\* Message.token_count of a message created without one
DEFAULT_TOKEN_COUNT == 0

TokenMessage(role, content, token_count) ==
    [role |-> role, content |-> content, token_count |-> token_count]

\* len(self.encoding.encode(text)): one token per run of characters
EncodedLength(text) == Len(text)

FORMATTING_OVERHEAD == 4

count_message_tokens(message) ==
    IF message.token_count # NO_COUNT THEN message.token_count
    ELSE EncodedLength(message.content) + EncodedLength(<<message.role>>)
             + FORMATTING_OVERHEAD

RECURSIVE SumTokens(_)
SumTokens(msgs) ==
    IF msgs = <<>> THEN 0
    ELSE count_message_tokens(Head(msgs)) + SumTokens(Tail(msgs))

TokenState(msgs, total, path) == [messages |-> msgs, total |-> total, path |-> path]

RemovedTokens_Zero(message) == 0

\* removed_tokens of _drop_oldest_messages
RemovedTokens(message) == count_message_tokens(message)

\* _drop_oldest_messages
RECURSIVE drop_oldest_messages(_, _)
drop_oldest_messages(st, target_tokens) ==
    IF st.total > target_tokens /\ st.messages # <<>>
    THEN drop_oldest_messages(
             TokenState(Tail(st.messages),
                        st.total - RemovedTokens(Head(st.messages)), "drop"),
             target_tokens)
    ELSE st

recalculate_tokens_Stale(msgs, total) == total

\* _recalculate_tokens
recalculate_tokens(msgs, total) == SumTokens(msgs)

\* the loop of _summarize_conversation over reversed(self.messages): the
\* positions of messages_to_keep
RECURSIVE KeepFrom(_, _, _, _)
KeepFrom(msgs, i, temp_tokens, target_tokens) ==
    IF i = 0 THEN {}
    ELSE LET message_tokens == count_message_tokens(msgs[i])
         IN IF temp_tokens + message_tokens < target_tokens \div 2
            THEN {i} \cup KeepFrom(msgs, i - 1, temp_tokens + message_tokens,
                                   target_tokens)
            ELSE KeepFrom(msgs, i - 1, temp_tokens, target_tokens)

\* the elements of seq at the positions of keep, in order
RECURSIVE AtPositions(_, _, _)
AtPositions(seq, keep, i) ==
    IF i > Len(seq) THEN <<>>
    ELSE (IF i \in keep THEN <<seq[i]>> ELSE <<>>) \o AtPositions(seq, keep, i + 1)

SUMMARY == <<"[Conversation Summary]: ", "summary">>

\* Message(role="system", content=..., metadata=...): token_count is the default
summary_message == TokenMessage("system", SUMMARY, 0)

Summarizers == {"none", "returns", "raises"}

SummarizeFailed_Ignored(st, target_tokens) == st

\* the except clause of _summarize_conversation
SummarizeFailed(st, target_tokens) == drop_oldest_messages(st, target_tokens)

\* _summarize_conversation
summarize_conversation(st, target_tokens, summarizer) ==
    IF summarizer = "none" \/ Len(st.messages) < 4
    THEN drop_oldest_messages(st, target_tokens)
    ELSE LET keep == KeepFrom(st.messages, Len(st.messages), 0, target_tokens)
             messages_to_keep == AtPositions(st.messages, keep, 1)
             messages_to_summarize ==
                 AtPositions(st.messages, DOMAIN st.messages \ keep, 1)
             replaced == <<summary_message>> \o messages_to_keep
         IN IF messages_to_summarize = <<>> THEN st
            ELSE IF summarizer = "raises"
            THEN SummarizeFailed(st, target_tokens)
            ELSE TokenState(replaced, recalculate_tokens(replaced, st.total), "summary")

\* _truncate_middle_messages
truncate_middle_messages(st, target_tokens) ==
    IF Len(st.messages) <= 4 THEN drop_oldest_messages(st, target_tokens)
    ELSE LET first_messages == SubSeq(st.messages, 1, 2)
             last_messages == SubSeq(st.messages, Len(st.messages) - 1, Len(st.messages))
             replaced == first_messages \o last_messages
         IN TokenState(replaced, recalculate_tokens(replaced, st.total), "truncate")

OverflowStrategy == {"drop_oldest", "summarize", "truncate_middle"}

\* _handle_overflow
handle_overflow(st, strategy, summarizer, maximum, reserve) ==
    IF st.total + reserve <= maximum THEN st
    ELSE LET target_tokens == maximum - reserve
         IN CASE strategy = "drop_oldest" -> drop_oldest_messages(st, target_tokens)
              [] strategy = "summarize" ->
                    summarize_conversation(st, target_tokens, summarizer)
              [] OTHER -> truncate_middle_messages(st, target_tokens)

\* TokenAwareConversationManager.fetch_conversation
token_fetch_conversation(msgs, window_size) ==
    LastOf(SelectSeq(msgs, LAMBDA msg : msg.role \notin {"system", "tool"}), window_size)

\* the message after add_message stored its token count in it
Stored(message) ==
    IF message.token_count = NO_COUNT
    THEN [message EXCEPT !.token_count = count_message_tokens(message)]
    ELSE message

\* TokenAwareConversationManager.add_message
token_add_message(msgs, total, message, strategy, summarizer, maximum, reserve) ==
    LET message_tokens == count_message_tokens(message)
    IN handle_overflow(TokenState(Append(msgs, Stored(message)),
                                  total + message_tokens, "none"),
                       strategy, summarizer, maximum, reserve)

----------------------------------------------------------------------------
(* File watchers: the main thread and one observer thread per watcher *)

MAIN == 0

Watchers == 1..MaxWatchers

\* the observer of watcher w runs its callbacks on thread w
Threads == {MAIN} \cup Watchers

\* the conversation managers of the process: the one of planner_agent in
\* main.py and the one of the module-level agent of tools/sub_agent_tools.py
PLANNER == "planner_agent.conversation_manager"

SUB_AGENT == "sub_agent_tools.agent.conversation_manager"

Managers == {PLANNER, SUB_AGENT}

\* the manager of the agent ai_callback hands to execute_action: the agent
\* imported from tools.sub_agent_tools, whichever watcher calls
callback_manager(w) == SUB_AGENT

\* the manager of the agent plan_act_observe_subagent calls
subagent_tool_manager == SUB_AGENT

\* the send_message calls a thread is inside, outermost first
InSendMessage(stack, manager) == \E i \in DOMAIN stack : stack[i] = manager

----------------------------------------------------------------------------
(* The state machine *)

USER_TEXT == <<"hello">>

Ended == {"idle", "done", "returned", "raised", "failed_limit", "failed_nontext"}

NoOriginal == [exists |-> FALSE, messages |-> <<>>, added |-> 0, finalized |-> FALSE]

LogDid(op, wrote, added) == [op |-> op, wrote |-> wrote, added |-> added]

\* added: the messages handed to add_message so far, as stored
TokenDid(adds, path, added) == [adds |-> adds, path |-> path, added |-> added]

----------------------------------------------------------------------------
(* common/decorators.py: Tool derives a BaseTool from a callable *)

\* the type hints a parameter can carry; "none" is a parameter without one
Forms == {"none", "str", "Union[int, str]", "Optional[str]", "str | None"}

\* annotated: the hint is wrapped in Annotated[..., Field(description=...)]
Annotation(form, annotated) == [form |-> form, annotated |-> annotated]

Annotations ==
    {Annotation(form, annotated) : form \in Forms, annotated \in BOOLEAN}
        \ {Annotation("none", TRUE)}

Parameter(name, annotation, has_default) ==
    [name |-> name, annotation |-> annotation, has_default |-> has_default]

ParameterNames == {"self", "path", "mode"}

Parameters ==
    {Parameter(name, annotation, has_default) :
        name \in ParameterNames, annotation \in Annotations, has_default \in BOOLEAN}

\* the parameter lists of the callables: names are distinct and self comes first
Signatures ==
    UNION {{signature \in [1..n -> Parameters] :
               /\ \A i, j \in 1..n : signature[i].name = signature[j].name => i = j
               /\ \A i \in 2..n : signature[i].name # "self"} : n \in 0..MaxParams}

\* typing.get_origin(X | None) is types.UnionType on Python 3.10 to 3.13 and
\* typing.Union from Python 3.14 on
PythonUnions == {"types.UnionType", "typing.Union"}

\* type_hints.get(name, Any)
Hint(annotation) == IF annotation.form = "none" THEN "Any" ELSE annotation.form

\* Tool.unwrap_annotation
unwrap_annotation(annotation) ==
    [base |-> Hint(annotation), field_info |-> annotation.annotated]

\* typing.get_origin as Tool calls it
get_origin(base_annotation, unions) ==
    CASE base_annotation \in {"Union[int, str]", "Optional[str]"} -> "typing.Union"
      [] base_annotation = "str | None" -> unions
      [] OTHER -> "None"

\* typing.get_args as Tool calls it
get_args(base_annotation) ==
    CASE base_annotation = "Union[int, str]" -> <<"int", "str">>
      [] base_annotation \in {"Optional[str]", "str | None"} -> <<"str", "NoneType">>
      [] OTHER -> <<>>

\* Tool.is_optional
is_optional(annotation, unions) ==
    LET base_annotation == unwrap_annotation(annotation).base
    IN IF get_origin(base_annotation, unions) = "typing.Union"
       THEN \E i \in DOMAIN get_args(base_annotation) :
                get_args(base_annotation)[i] = "NoneType"
       ELSE FALSE

\* Tool.annotation_to_schema: the kind of schema and whether it carries the
\* description of the Field
annotation_to_schema(annotation, unions) ==
    LET unwrapped == unwrap_annotation(annotation)
        origin == get_origin(unwrapped.base, unions)
        union_args == SelectSeq(get_args(unwrapped.base), LAMBDA arg : arg # "NoneType")
        kind == CASE origin = "None" /\ unwrapped.base = "str" -> "string"
                  [] origin = "None" /\ unwrapped.base = "Any" -> "any"
                  [] origin = "typing.Union" /\ Len(union_args) = 1 -> "string"
                  [] origin = "typing.Union" -> "anyOf"
                  [] OTHER -> "any"
    IN [kind |-> kind, description |-> unwrapped.field_info]

\* the loop of Tool over signature.parameters: the names appended to required
RECURSIVE Required(_, _)
Required(signature, unions) ==
    IF signature = <<>> THEN <<>>
    ELSE LET param == Head(signature)
             rest == Required(Tail(signature), unions)
         IN IF param.name = "self" THEN rest
            ELSE IF param.has_default THEN rest
            ELSE IF ~is_optional(param.annotation, unions) THEN <<param.name>> \o rest
            ELSE rest

\* the loop of Tool over signature.parameters: the properties it fills
Properties(signature, unions) ==
    LET at(name) == CHOOSE i \in DOMAIN signature : signature[i].name = name
    IN [name \in {signature[i].name : i \in DOMAIN signature} \ {"self"} |->
           [schema |-> annotation_to_schema(signature[at(name)].annotation, unions),
            default |-> signature[at(name)].has_default]]

\* Tool: the tool_params of the BaseTool it returns
Tool(signature, unions) ==
    LET required == Required(signature, unions)
        properties == Properties(signature, unions)
    IN IF required # <<>>
       THEN [type |-> "object", properties |-> properties,
             additionalProperties |-> FALSE, required |-> required]
       ELSE [type |-> "object", properties |-> properties,
             additionalProperties |-> FALSE]

\* no callable is being decorated
ToolOff ==
    /\ python_unions = "types.UnionType"
    /\ tool_func = <<>>
    /\ derived = <<>>

----------------------------------------------------------------------------
(* main.py: the interactive loop of main() *)

GOODBYE == <<"Goodbye!">>

BLANK_LINE == <<"\\n">>

ErrorText(exc) == <<"Error: ", exc>>

\* a call of prompt() returns the text typed or raises
Typed(text) == [raises |-> "", text |-> text]

PromptRaises(exc) == [raises |-> exc, text |-> <<>>]

PromptOutcomes ==
    {Typed(text) : text \in {<<>>, <<WS>>, <<"hi">>, <<WS, "hi", WS>>}}
        \cup {PromptRaises(exc) : exc \in {"KeyboardInterrupt", "EOFError", "Exception"}}

PromptScripts == UNION {[1..n -> PromptOutcomes] : n \in 1..MaxPrompts}

\* what a call of planner_agent.send_message does: it returns or an exception
\* leaves it
AgentOutcomes == {"returned", "Exception", "KeyboardInterrupt", "EOFError", "SystemExit"}

\* the return value of planner_agent.send_message(user_input)
Result(user_input) == <<"re: ">> \o user_input

\* x: the exception that left the call, "" when it returned
Event(e, v, x) == [e |-> e, v |-> v, x |-> x]

Skipped_Never(user_input) == FALSE

\* main: `if not user_input: continue`
Skipped(user_input) == user_input = <<>>

except_clause_ExceptionEnds(exc) ==
    IF exc \in {"KeyboardInterrupt", "EOFError", "Exception"} THEN "goodbye" ELSE "propagates"

\* main: the except clause that takes an exception raised in the try block
except_clause(exc) ==
    CASE exc = "KeyboardInterrupt" -> "goodbye"
      [] exc = "EOFError" -> "goodbye"
      [] exc = "Exception" -> "error"
      [] OTHER -> "propagates"

\* main: what the except clauses print and where they leave main()
AfterException(exc) ==
    CASE except_clause(exc) = "goodbye" ->
            [events |-> <<Event("print", GOODBYE, "")>>, at |-> "returned"]
      [] except_clause(exc) = "error" ->
            [events |-> <<Event("print", ErrorText(exc), "")>>, at |-> "loop"]
      [] OTHER -> [events |-> <<>>, at |-> "raised"]

\* one iteration of the loop of main(): outcome is what prompt() does, agent
\* what planner_agent.send_message does if it is called
main_iteration(outcome, agent) ==
    LET asked == <<Event("prompt", outcome.text, outcome.raises)>>
        user_input == Strip(outcome.text)
        sent == asked \o <<Event("print", BLANK_LINE, ""),
                            Event("send_message", user_input, agent)>>
    IN IF outcome.raises # ""
       THEN [events |-> asked \o AfterException(outcome.raises).events,
             at |-> AfterException(outcome.raises).at]
       ELSE IF Skipped(user_input)
       THEN [events |-> asked, at |-> "loop"]
       ELSE IF agent = "returned"
       THEN [events |-> sent \o <<Event("print", Result(user_input), ""),
                                   Event("print", BLANK_LINE, "")>>,
             at |-> "loop"]
       ELSE [events |-> sent \o AfterException(agent).events,
             at |-> AfterException(agent).at]

\* calls of prompt() so far
Prompted(log) == Cardinality({i \in DOMAIN log : log[i].e = "prompt"})

\* main() is not running
MainOff ==
    /\ prompt_script = <<PromptRaises("KeyboardInterrupt")>>
    /\ main_log = <<>>
    /\ main_at = "loop"

----------------------------------------------------------------------------
(* common/file_watcher/manager.py: the registry of WatchdogFileWatcherManager *)

\* the threads that call the manager
Callers == 1..MaxCallers

NoCaller == 0

Idle == [op |-> "idle", id |-> 0]

InCall(op, id) == [op |-> op, id |-> id]

\* a WatcherInstance: stops counts the calls of observer.stop()
Instance(created, is_running, stops) ==
    [created |-> created, is_running |-> is_running, stops |-> stops]

Returned_From(thread, op, id, result) ==
    [thread |-> thread, op |-> op, id |-> id, result |-> result]

\* WatcherInstance.start
instance_start(instance) ==
    IF ~instance.is_running
    THEN Instance(instance.created, TRUE, instance.stops)
    ELSE instance

\* WatcherInstance.stop
instance_stop(instance) ==
    IF instance.is_running
    THEN Instance(instance.created, FALSE, instance.stops + 1)
    ELSE instance

Deleted_Kept(registry, watcher_id) == registry

\* stop_watcher: `del self._watchers[watcher_id]`
Deleted(registry, watcher_id) == registry \ {watcher_id}

\* the body of stop_watcher under the lock
stop_watcher(registry, made, watcher_id) ==
    IF watcher_id \notin registry
    THEN [registry |-> registry, observers |-> made, result |-> FALSE]
    ELSE [registry |-> Deleted(registry, watcher_id),
          observers |-> [made EXCEPT ![watcher_id] = instance_stop(@)],
          result |-> TRUE]

\* the body of stop_all_watchers under the lock; result is the count returned
stop_all_watchers(registry, made) ==
    [registry |-> {},
     observers |-> [w \in DOMAIN made |->
                       IF w \in registry THEN instance_stop(made[w]) ELSE made[w]],
     result |-> Cardinality(registry)]

\* calls of the manager started so far
CallsStarted ==
    Len(registry_log) + Cardinality({t \in Callers : caller_at[t] # Idle})

\* no thread calls the manager
RegistryOff ==
    /\ observers = [w \in Watchers |-> Instance(FALSE, FALSE, 0)]
    /\ lock_owner = NoCaller
    /\ caller_at = [t \in Callers |-> Idle]
    /\ registry_log = <<>>

\* no agent is running
AgentsOff ==
    /\ runtime = "none"
    /\ script = <<NonText>>
    /\ answers = <<"n">>
    /\ calls = 0
    /\ asks = 0
    /\ requests = 0
    /\ status = "idle"
    /\ invocations = 0
    /\ dispatched = <<>>
    /\ yielded = <<>>
    /\ last = Did("none", NoReply, <<>>, <<>>, <<>>)
    /\ turn_counter = 0
    /\ action = None
    /\ agent_iterations = 0
    /\ user_choices = {}
    /\ last_observation = <<>>
    /\ final_output = <<>>

\* the manager main.py wires: persistent, on the default path, no file yet
LogOff ==
    /\ persist_to_file = TRUE
    /\ conversation_path = "default"
    /\ instances = 1
    /\ original = NoOriginal
    /\ log_last = LogDid("construct", FALSE, 0)

\* no TokenAwareConversationManager is in use
TokensOff ==
    /\ total_tokens = 0
    /\ token_messages = <<>>
    /\ overflow_strategy = "drop_oldest"
    /\ summarizer_func = "none"
    /\ max_tokens = 0
    /\ reserve_tokens = 0
    /\ token_last = TokenDid(0, "none", <<>>)

\* no watcher is started and no thread is inside send_message
WatchOff ==
    /\ watchers = {}
    /\ thread_at = [t \in Threads |-> <<>>]
    /\ manager_log = [m \in Managers |-> <<>>]
    /\ pending_events = [w \in Watchers |-> 0]

Init ==
    /\ runtime \in {"krishna", "pao"}
    /\ script \in Scripts(IF runtime = "krishna" THEN KrishnaReplies ELSE PlanReplies,
                          MaxScript)
    /\ answers \in (IF runtime = "krishna" THEN {<<"n">>} ELSE Scripts(Choices, MaxAnswers))
    /\ calls = 0
    /\ asks = 0
    /\ messages = <<>>
    /\ persisted_count = 0
    /\ conversation_file = <<>>
    /\ requests = 0
    /\ status = "idle"
    /\ invocations = 0
    /\ dispatched = <<>>
    /\ yielded = <<>>
    /\ last = Did("none", NoReply, <<>>, <<>>, <<>>)
    /\ turn_counter = 0
    /\ action = None
    /\ agent_iterations = 0
    /\ user_choices = {}
    /\ last_observation = <<>>
    /\ final_output = <<>>
    /\ LogOff
    /\ TokensOff
    /\ WatchOff
    /\ ToolOff
    /\ MainOff
    /\ RegistryOff

\* KrishnaAgent.send_message up to the loop
KSend ==
    /\ runtime = "krishna"
    /\ status \in Ended
    /\ requests < MaxRequests
    /\ requests' = requests + 1
    /\ messages' = Append(messages, Message("user", USER_TEXT))
    /\ action' = None
    /\ turn_counter' = FreshCounter(turn_counter)
    /\ status' = "running"
    /\ invocations' = 0
    /\ dispatched' = <<>>
    /\ yielded' = <<>>
    /\ last' = Did("send", NoReply, <<Message("user", USER_TEXT)>>, <<>>, <<>>)
    /\ UNCHANGED <<runtime, script, calls, answers, asks, persisted_count,
                   conversation_file, agent_iterations, user_choices,
                   last_observation, final_output>>
    /\ UNCHANGED <<logvars, tokenvars, watchvars, toolvars, mainvars, registryvars>>

\* an iteration of the loop that finds the counter over the limit
KLimit ==
    /\ runtime = "krishna"
    /\ status = "running"
    /\ LimitExceeded(turn_counter + 1)
    /\ turn_counter' = turn_counter + 1
    /\ messages' = Append(messages, append_system_message(ITERATION_FAILURE))
    /\ yielded' = Append(yielded, ITERATION_FAILURE)
    /\ status' = "failed_limit"
    /\ last' = Did("limit", NoReply, <<append_system_message(ITERATION_FAILURE)>>, <<>>, <<>>)
    /\ UNCHANGED <<runtime, script, calls, answers, asks, persisted_count,
                   conversation_file, requests, invocations, dispatched, action,
                   agent_iterations, user_choices, last_observation, final_output>>
    /\ UNCHANGED <<logvars, tokenvars, watchvars, toolvars, mainvars, registryvars>>

\* an iteration of the loop that invokes the model
KTurn ==
    /\ runtime = "krishna"
    /\ status = "running"
    /\ ~LimitExceeded(turn_counter + 1)
    /\ LET reply == At(script, calls + 1)
           r == KrishnaIteration(reply, action)
       IN /\ turn_counter' = turn_counter + 1
          /\ calls' = calls + 1
          /\ invocations' = invocations + 1
          /\ messages' = messages \o r.appended
          /\ action' = r.action
          /\ dispatched' = dispatched \o r.called
          /\ yielded' = yielded \o r.chunks
          /\ status' = r.status
          /\ last' = Did("turn", reply, r.appended, r.called, <<>>)
    /\ UNCHANGED <<runtime, script, answers, asks, persisted_count,
                   conversation_file, requests, agent_iterations, user_choices,
                   last_observation, final_output>>
    /\ UNCHANGED <<logvars, tokenvars, watchvars, toolvars, mainvars, registryvars>>

\* PlanActObserveAgent.send_message up to the loop
PSend ==
    /\ runtime = "pao"
    /\ status \in Ended
    /\ requests < MaxRequests
    /\ requests' = requests + 1
    /\ messages' = Append(messages, Message("user", USER_TEXT))
    /\ agent_iterations' = 0
    /\ last_observation' = <<"None">>
    /\ final_output' = <<>>
    /\ status' = "running"
    /\ invocations' = 0
    /\ dispatched' = <<>>
    /\ last' = Did("send", NoReply, <<Message("user", USER_TEXT)>>, <<>>, <<>>)
    /\ UNCHANGED <<runtime, script, calls, answers, asks, persisted_count,
                   conversation_file, yielded, turn_counter, action, user_choices>>
    /\ UNCHANGED <<logvars, tokenvars, watchvars, toolvars, mainvars, registryvars>>

\* an iteration of the while True loop
PTurn ==
    /\ runtime = "pao"
    /\ status = "running"
    /\ agent_iterations < MaxIterations
    /\ LET reply == At(script, calls + 1)
           r == PaoIteration(reply, user_choices, asks, last_observation, answers)
           saved == finalize(persist_to_file, messages \o r.appended, persisted_count,
                             conversation_file)
       IN /\ agent_iterations' = agent_iterations + 1
          /\ calls' = calls + 1
          /\ invocations' = invocations + 1
          /\ messages' = messages \o r.appended
          /\ user_choices' = r.choices
          /\ asks' = r.asks
          /\ last_observation' = r.observation
          /\ dispatched' = dispatched \o r.called
          /\ final_output' = r.output
          /\ status' = r.status
          /\ persisted_count' = IF r.finalized THEN saved.count ELSE persisted_count
          /\ conversation_file' = IF r.finalized THEN saved.file ELSE conversation_file
          /\ last' = Did("turn", reply, r.appended, r.called, r.prompts)
    /\ UNCHANGED <<runtime, script, answers, requests, yielded, turn_counter, action>>
    /\ UNCHANGED <<logvars, tokenvars, watchvars, toolvars, mainvars, registryvars>>

Next == KSend \/ KLimit \/ KTurn \/ PSend \/ PTurn

Spec == Init /\ [][Next]_vars

----------------------------------------------------------------------------
(* The state machine of one conversation file and the                     *)
(* SlidingWindowConversationManager instances constructed on it           *)

USER_HI == Message("user", <<"hi">>)

SYSTEM_NOTE == Message("system", <<"note">>)

\* a content with a line feed and a double quote in it
USER_QUOTED == Message("user", <<"a", LF, DQ, "b">>)

\* the messages handed to add_message
LogMessages == {SYSTEM_NOTE, USER_QUOTED}

\* what the file may hold before the first manager is constructed: nothing,
\* one record, one record without its line feed, two records on one line
\* followed by an empty line
ExistingFiles ==
    {<<>>,
     rewrite_history_file(<<USER_HI>>),
     model_dump_json(USER_QUOTED),
     model_dump_json(USER_HI) \o <<WS>> \o model_dump_json(SYSTEM_NOTE) \o <<LF, LF>>}

LogInit ==
    /\ AgentsOff
    /\ TokensOff
    /\ WatchOff
    /\ ToolOff
    /\ MainOff
    /\ RegistryOff
    /\ persist_to_file \in BOOLEAN
    /\ conversation_path \in PathKinds
    /\ \E file \in ExistingFiles :
          LET made == SlidingWindowInit(persist_to_file, conversation_path, file)
          IN /\ messages = made.messages
             /\ persisted_count = made.count
             /\ conversation_file = made.file
    /\ instances = 1
    /\ original = NoOriginal
    /\ log_last = LogDid("construct", FALSE, 0)

\* SlidingWindowConversationManager.add_message
LogAdd ==
    /\ log_last.added < MaxMessages
    /\ \E message \in LogMessages : messages' = Append(messages, message)
    /\ log_last' = LogDid("add_message", FALSE, log_last.added + 1)
    /\ UNCHANGED <<persisted_count, conversation_file, persist_to_file,
                   conversation_path, instances, original>>
    /\ UNCHANGED <<agentvars, tokenvars, watchvars, toolvars, mainvars, registryvars>>

\* SlidingWindowConversationManager.finalize
LogFinalize ==
    /\ LET saved == finalize(persist_to_file, messages, persisted_count,
                             conversation_file)
       IN /\ persisted_count' = saved.count
          /\ conversation_file' = saved.file
          /\ log_last' = LogDid("finalize", saved.wrote, log_last.added)
    /\ UNCHANGED <<messages, persist_to_file, conversation_path, instances, original>>
    /\ UNCHANGED <<agentvars, tokenvars, watchvars, toolvars, mainvars, registryvars>>

\* a new SlidingWindowConversationManager with the same arguments, while the
\* caller keeps the one it had
LogConstruct ==
    /\ instances < MaxInstances
    /\ LET made == SlidingWindowInit(persist_to_file, conversation_path,
                                     conversation_file)
       IN /\ messages' = made.messages
          /\ persisted_count' = made.count
          /\ conversation_file' = made.file
          /\ log_last' = LogDid("construct", made.file # conversation_file, 0)
    /\ original' = [exists |-> TRUE, messages |-> messages,
                    added |-> log_last.added,
                    finalized |-> persisted_count >= Len(messages)]
    /\ instances' = instances + 1
    /\ UNCHANGED <<persist_to_file, conversation_path>>
    /\ UNCHANGED <<agentvars, tokenvars, watchvars, toolvars, mainvars, registryvars>>

LogNext == LogAdd \/ LogFinalize \/ LogConstruct

SpecLog == LogInit /\ [][LogNext]_vars

----------------------------------------------------------------------------
(* The state machine of one TokenAwareConversationManager *)

TokenCounts == {NO_COUNT, DEFAULT_TOKEN_COUNT, 1, 3}

\* the messages handed to add_message
TokenInputs ==
    {TokenMessage("user", <<"hi">>, n) : n \in TokenCounts}
        \cup {TokenMessage("assistant", <<"ok">>, 1)}

\* max_tokens and reserve_tokens handed to the constructor
TokenBudgets == {<<10, 2>>, <<6, 0>>}

TokenInit ==
    /\ AgentsOff
    /\ LogOff
    /\ WatchOff
    /\ ToolOff
    /\ MainOff
    /\ RegistryOff
    /\ messages = <<>>
    /\ persisted_count = 0
    /\ conversation_file = <<>>
    /\ overflow_strategy \in OverflowStrategy
    /\ summarizer_func \in Summarizers
    /\ \E budget \in TokenBudgets :
          /\ max_tokens = budget[1]
          /\ reserve_tokens = budget[2]
    /\ total_tokens = 0
    /\ token_messages = <<>>
    /\ token_last = TokenDid(0, "none", <<>>)

\* TokenAwareConversationManager.add_message
TokenAdd ==
    /\ token_last.adds < MaxAdds
    /\ \E message \in TokenInputs :
          LET st == token_add_message(token_messages, total_tokens, message,
                                      overflow_strategy, summarizer_func,
                                      max_tokens, reserve_tokens)
          IN /\ token_messages' = st.messages
             /\ total_tokens' = st.total
             /\ token_last' = TokenDid(token_last.adds + 1, st.path,
                                      Append(token_last.added, Stored(message)))
    /\ UNCHANGED <<overflow_strategy, summarizer_func, max_tokens, reserve_tokens>>
    /\ UNCHANGED <<agentvars, cmvars, logvars, watchvars, toolvars, mainvars, registryvars>>

TokenNext == TokenAdd

SpecTokens == TokenInit /\ [][TokenNext]_vars

----------------------------------------------------------------------------
(* The state machine of the threads of one process with file watchers *)

WatchInit ==
    /\ AgentsOff
    /\ LogOff
    /\ TokensOff
    /\ messages = <<>>
    /\ persisted_count = 0
    /\ conversation_file = <<>>
    /\ WatchOff
    /\ ToolOff
    /\ MainOff
    /\ RegistryOff

Recorded(manager, thread) ==
    [manager_log EXCEPT ![manager] = Append(@, thread)]

\* the /watch command on the main thread: start_file_watcher starts an observer
StartWatcher ==
    /\ thread_at[MAIN] = <<>>
    /\ \E w \in Watchers \ watchers : watchers' = watchers \cup {w}
    /\ UNCHANGED <<thread_at, manager_log, pending_events>>
    /\ UNCHANGED <<agentvars, cmvars, logvars, tokenvars, toolvars, mainvars, registryvars>>

\* the /watch command on the main thread: stop_file_watcher; a callback that
\* is running goes on after observer.join times out
StopWatcher ==
    /\ thread_at[MAIN] = <<>>
    /\ \E w \in watchers :
          /\ watchers' = watchers \ {w}
          /\ pending_events' = [pending_events EXCEPT ![w] = 0]
    /\ UNCHANGED <<thread_at, manager_log>>
    /\ UNCHANGED <<agentvars, cmvars, logvars, tokenvars, toolvars, mainvars, registryvars>>

\* a file under the watched path changes
FileEvent ==
    /\ \E w \in watchers :
          /\ pending_events[w] = 0
          /\ pending_events' = [pending_events EXCEPT ![w] = 1]
    /\ UNCHANGED <<watchers, thread_at, manager_log>>
    /\ UNCHANGED <<agentvars, cmvars, logvars, tokenvars, toolvars, mainvars, registryvars>>

\* the observer thread takes an event: _handle_event, ai_callback,
\* execute_action and the add_message that opens agent.send_message
Callback ==
    /\ \E w \in watchers :
          /\ pending_events[w] > 0
          /\ thread_at[w] = <<>>
          /\ Len(manager_log[callback_manager(w)]) < MaxLog
          /\ pending_events' = [pending_events EXCEPT ![w] = @ - 1]
          /\ thread_at' = [thread_at EXCEPT ![w] = <<callback_manager(w)>>]
          /\ manager_log' = Recorded(callback_manager(w), w)
    /\ UNCHANGED watchers
    /\ UNCHANGED <<agentvars, cmvars, logvars, tokenvars, toolvars, mainvars, registryvars>>

\* the main loop: planner_agent.send_message adds the user message
MainSend ==
    /\ thread_at[MAIN] = <<>>
    /\ Len(manager_log[PLANNER]) < MaxLog
    /\ thread_at' = [thread_at EXCEPT ![MAIN] = <<PLANNER>>]
    /\ manager_log' = Recorded(PLANNER, MAIN)
    /\ UNCHANGED <<watchers, pending_events>>
    /\ UNCHANGED <<agentvars, cmvars, logvars, tokenvars, toolvars, mainvars, registryvars>>

\* the planner calls the tool plan_act_observe_subagent: agent.send_message
MainSubagent ==
    /\ thread_at[MAIN] = <<PLANNER>>
    /\ Len(manager_log[subagent_tool_manager]) < MaxLog
    /\ thread_at' = [thread_at EXCEPT ![MAIN] = <<PLANNER, subagent_tool_manager>>]
    /\ manager_log' = Recorded(subagent_tool_manager, MAIN)
    /\ UNCHANGED <<watchers, pending_events>>
    /\ UNCHANGED <<agentvars, cmvars, logvars, tokenvars, toolvars, mainvars, registryvars>>

\* an iteration of the loop of the innermost send_message of a thread adds a message
LoopAdd ==
    /\ \E t \in Threads :
          /\ thread_at[t] # <<>>
          /\ LET manager == thread_at[t][Len(thread_at[t])]
             IN /\ Len(manager_log[manager]) < MaxLog
                /\ manager_log' = Recorded(manager, t)
    /\ UNCHANGED <<watchers, thread_at, pending_events>>
    /\ UNCHANGED <<agentvars, cmvars, logvars, tokenvars, toolvars, mainvars, registryvars>>

\* the innermost send_message of a thread returns
Return ==
    /\ \E t \in Threads :
          /\ thread_at[t] # <<>>
          /\ thread_at' = [thread_at EXCEPT ![t] = SubSeq(@, 1, Len(@) - 1)]
    /\ UNCHANGED <<watchers, manager_log, pending_events>>
    /\ UNCHANGED <<agentvars, cmvars, logvars, tokenvars, toolvars, mainvars, registryvars>>

WatchNext ==
    \/ StartWatcher
    \/ StopWatcher
    \/ FileEvent
    \/ Callback
    \/ MainSend
    \/ MainSubagent
    \/ LoopAdd
    \/ Return

SpecWatch == WatchInit /\ [][WatchNext]_vars

----------------------------------------------------------------------------
(* The state machine of one use of the decorator Tool *)

ToolInit ==
    /\ AgentsOff
    /\ LogOff
    /\ TokensOff
    /\ WatchOff
    /\ messages = <<>>
    /\ persisted_count = 0
    /\ conversation_file = <<>>
    /\ MainOff
    /\ RegistryOff
    /\ python_unions \in PythonUnions
    /\ tool_func \in Signatures
    /\ derived = <<>>

\* Tool(func)
Decorate ==
    /\ derived = <<>>
    /\ derived' = <<Tool(tool_func, python_unions)>>
    /\ UNCHANGED <<python_unions, tool_func>>
    /\ UNCHANGED <<agentvars, cmvars, logvars, tokenvars, watchvars, mainvars, registryvars>>

ToolNext == Decorate

SpecTool == ToolInit /\ [][ToolNext]_vars

----------------------------------------------------------------------------
(* The state machine of one run of main() *)

MainInit ==
    /\ AgentsOff
    /\ LogOff
    /\ TokensOff
    /\ WatchOff
    /\ ToolOff
    /\ RegistryOff
    /\ messages = <<>>
    /\ persisted_count = 0
    /\ conversation_file = <<>>
    /\ prompt_script \in PromptScripts
    /\ main_log = <<>>
    /\ main_at = "loop"

\* main: one pass through the body of `while True`
MainLoop ==
    /\ main_at = "loop"
    /\ Prompted(main_log) < Len(prompt_script)
    /\ \E agent \in AgentOutcomes :
          LET done == main_iteration(prompt_script[Prompted(main_log) + 1], agent)
          IN /\ main_log' = main_log \o done.events
             /\ main_at' = done.at
    /\ UNCHANGED prompt_script
    /\ UNCHANGED <<agentvars, cmvars, logvars, tokenvars, watchvars, toolvars, registryvars>>

MainNext == MainLoop

SpecMain == MainInit /\ [][MainNext]_vars

----------------------------------------------------------------------------
(* The state machine of the threads that call one WatchdogFileWatcherManager *)

RegistryInit ==
    /\ AgentsOff
    /\ LogOff
    /\ TokensOff
    /\ WatchOff
    /\ ToolOff
    /\ MainOff
    /\ RegistryOff
    /\ messages = <<>>
    /\ persisted_count = 0
    /\ conversation_file = <<>>

\* a thread calls start_watcher: the part before the lock validates the path
\* and makes the metadata, with a fresh uuid, the observer and the instance
CallStart ==
    /\ CallsStarted < MaxCalls
    /\ \E t \in Callers, w \in Watchers :
          /\ caller_at[t] = Idle
          /\ ~observers[w].created
          /\ observers' = [observers EXCEPT ![w] = Instance(TRUE, FALSE, 0)]
          /\ caller_at' = [caller_at EXCEPT ![t] = InCall("start_watcher", w)]
    /\ UNCHANGED <<watchers, lock_owner, registry_log>>
    /\ UNCHANGED <<thread_at, manager_log, pending_events>>
    /\ UNCHANGED <<agentvars, cmvars, logvars, tokenvars, toolvars, mainvars>>

\* a thread calls stop_watcher with any id
CallStop ==
    /\ CallsStarted < MaxCalls
    /\ \E t \in Callers, w \in Watchers :
          /\ caller_at[t] = Idle
          /\ caller_at' = [caller_at EXCEPT ![t] = InCall("stop_watcher", w)]
    /\ UNCHANGED <<watchers, observers, lock_owner, registry_log>>
    /\ UNCHANGED <<thread_at, manager_log, pending_events>>
    /\ UNCHANGED <<agentvars, cmvars, logvars, tokenvars, toolvars, mainvars>>

\* a thread calls stop_all_watchers
CallStopAll ==
    /\ CallsStarted < MaxCalls
    /\ \E t \in Callers :
          /\ caller_at[t] = Idle
          /\ caller_at' = [caller_at EXCEPT ![t] = InCall("stop_all_watchers", 0)]
    /\ UNCHANGED <<watchers, observers, lock_owner, registry_log>>
    /\ UNCHANGED <<thread_at, manager_log, pending_events>>
    /\ UNCHANGED <<agentvars, cmvars, logvars, tokenvars, toolvars, mainvars>>

\* `with self._lock:` of a thread that is in a call
Acquire ==
    /\ lock_owner = NoCaller
    /\ \E t \in Callers :
          /\ caller_at[t] # Idle
          /\ lock_owner' = t
    /\ UNCHANGED <<watchers, observers, caller_at, registry_log>>
    /\ UNCHANGED <<thread_at, manager_log, pending_events>>
    /\ UNCHANGED <<agentvars, cmvars, logvars, tokenvars, toolvars, mainvars>>

\* start_watcher under the lock: registers the instance and starts it
StartLocked ==
    /\ lock_owner # NoCaller
    /\ caller_at[lock_owner].op = "start_watcher"
    /\ LET w == caller_at[lock_owner].id
       IN /\ watchers' = watchers \cup {w}
          /\ observers' = [observers EXCEPT ![w] = instance_start(@)]
          /\ registry_log' = Append(registry_log,
                                    Returned_From(lock_owner, "start_watcher", w, TRUE))
    /\ caller_at' = [caller_at EXCEPT ![lock_owner] = Idle]
    /\ lock_owner' = NoCaller
    /\ UNCHANGED <<thread_at, manager_log, pending_events>>
    /\ UNCHANGED <<agentvars, cmvars, logvars, tokenvars, toolvars, mainvars>>

\* stop_watcher under the lock
StopLocked ==
    /\ lock_owner # NoCaller
    /\ caller_at[lock_owner].op = "stop_watcher"
    /\ LET w == caller_at[lock_owner].id
           done == stop_watcher(watchers, observers, w)
       IN /\ watchers' = done.registry
          /\ observers' = done.observers
          /\ registry_log' = Append(registry_log,
                                    Returned_From(lock_owner, "stop_watcher", w, done.result))
    /\ caller_at' = [caller_at EXCEPT ![lock_owner] = Idle]
    /\ lock_owner' = NoCaller
    /\ UNCHANGED <<thread_at, manager_log, pending_events>>
    /\ UNCHANGED <<agentvars, cmvars, logvars, tokenvars, toolvars, mainvars>>

\* stop_all_watchers under the lock
StopAllLocked ==
    /\ lock_owner # NoCaller
    /\ caller_at[lock_owner].op = "stop_all_watchers"
    /\ LET done == stop_all_watchers(watchers, observers)
       IN /\ watchers' = done.registry
          /\ observers' = done.observers
          /\ registry_log' = Append(registry_log,
                                    Returned_From(lock_owner, "stop_all_watchers", 0,
                                                  done.result > 0))
    /\ caller_at' = [caller_at EXCEPT ![lock_owner] = Idle]
    /\ lock_owner' = NoCaller
    /\ UNCHANGED <<thread_at, manager_log, pending_events>>
    /\ UNCHANGED <<agentvars, cmvars, logvars, tokenvars, toolvars, mainvars>>

RegistryNext ==
    \/ CallStart
    \/ CallStop
    \/ CallStopAll
    \/ Acquire
    \/ StartLocked
    \/ StopLocked
    \/ StopAllLocked

SpecRegistry == RegistryInit /\ [][RegistryNext]_vars

----------------------------------------------------------------------------
(* Properties *)

Count(seq, x) == Cardinality({i \in DOMAIN seq : seq[i] = x})

IsTurn == last.op = "turn"

LastJson == extract_json_from_text(last.reply.content)

LastPayload == json_loads(LastJson)

RequestOver == status \in Ended \ {"idle"}

\* C1: one KrishnaAgent request invokes the model at most MAX_AGENT_LOOPS
\* times; the turn that would be the next one ends the request with the
\* iteration failure chunk and a system-role log entry, without a model call.
C1_KrishnaLoopBound ==
    runtime = "krishna" =>
        /\ invocations <= MAX_AGENT_LOOPS
        /\ turn_counter > MAX_AGENT_LOOPS =>
            /\ status = "failed_limit"
            /\ invocations = MAX_AGENT_LOOPS
            /\ last.op = "limit"
            /\ last.appended = <<Message("system", ITERATION_FAILURE)>>
            /\ messages[Len(messages)] = Message("system", ITERATION_FAILURE)
            /\ yielded[Len(yielded)] = ITERATION_FAILURE

C1_Witness ==
    /\ runtime = "krishna"
    /\ status = "failed_limit"
    /\ invocations = MAX_AGENT_LOOPS
    /\ turn_counter = MAX_AGENT_LOOPS + 1

\* C2: one PlanActObserveAgent request invokes the model at most
\* MAX_AGENT_LOOPS times.
C2_PaoLoopBound ==
    runtime = "pao" => invocations <= PAO_MAX_AGENT_LOOPS

NoJsonReply == IsTurn /\ last.reply.is_str /\ LastJson = ""

Received == IF runtime = "pao" THEN <<final_output>> ELSE yielded

\* C3 as stated: in either runtime a text reply without a JSON object ends
\* the request in that iteration, dispatches nothing, and the caller receives
\* the reply.
C3_NoJsonIsFinal ==
    NoJsonReply =>
        /\ RequestOver
        /\ last.called = <<>>
        /\ Received # <<>>
        /\ Received[Len(Received)] = last.reply.content

AlwaysNoJson ==
    \A i \in DOMAIN script :
        script[i].is_str /\ extract_json_from_text(script[i].content) = ""

\* C3 amended: in PlanActObserveAgent a text reply without a JSON object ends
\* the request in that iteration with nothing dispatched (after 1 invocation
\* when the backend never sends JSON), and the caller receives the reply with
\* the fence markers removed and the surrounding whitespace stripped; in
\* KrishnaAgent such a reply appends a corrective system message and the
\* request goes on.
C3_NoJsonPerRuntime ==
    /\ (runtime = "pao" /\ NoJsonReply) =>
        /\ status = "returned"
        /\ last.called = <<>>
        /\ last.reply = PlainText => final_output = <<"Result is 5">>
        /\ last.reply = FencedText => final_output = <<"Run", WS, "ls">>
        /\ messages[Len(messages)] = Message("assistant", final_output)
        /\ AlwaysNoJson => invocations = 1
    /\ (runtime = "krishna" /\ NoJsonReply) =>
        /\ status = "running"
        /\ last.called = <<>>
        /\ last.appended = <<Message("assistant", last.reply.content),
                             Message("system", NO_JSON_NOTICE)>>

C3_Witness ==
    /\ runtime = "pao"
    /\ NoJsonReply
    /\ last.reply = FencedText
    /\ status = "returned"
    /\ invocations = 1

C4_Script ==
    \/ runtime = "krishna" /\ script = <<WithJson(KJ_ADD_F), PlainText>>
    \/ runtime = "pao" /\ script = <<WithJson(PJ_ADD), PlainText>> /\ answers = <<"y">>

\* C4: with add(2, 3) = 5 called by the first reply and 'Result is 5' as the
\* second reply, the request takes 2 model invocations and 1 handler call, the
\* feedback '5' is logged between the two assistant messages, and the caller
\* receives 'Result is 5'.
C4_EndToEnd ==
    (C4_Script /\ requests = 1 /\ RequestOver) =>
        /\ invocations = 2
        /\ dispatched = <<"add">>
        /\ \E i \in 2..(Len(messages) - 1) :
            /\ messages[i].content = <<"5">>
            /\ messages[i].role \in {"tool", ToolUseRole}
            /\ \E j \in 1..(i - 1) : messages[j].role = "assistant"
            /\ \E j \in (i + 1)..Len(messages) : messages[j].role = "assistant"
        /\ Received # <<>>
        /\ Received[Len(Received)] = <<"Result is 5">>

\* the reply is a schema-valid call of a registered tool of KrishnaAgent
KrishnaValidCall(reply) ==
    /\ reply.is_str
    /\ extract_json_from_text(reply.content) # ""
    /\ LET payload == json_loads(extract_json_from_text(reply.content))
       IN /\ payload.has_tool
          /\ payload.tool.params_is_object
          /\ \E i \in DOMAIN KrishnaTools :
                KrishnaTools[i].tool_name = payload.tool.tool_name

ReplyCall(reply) == json_loads(extract_json_from_text(reply.content))

\* C5 as stated: a backend that always sends a valid call of a registered
\* tool drives KrishnaAgent to the iteration failure after exactly
\* MAX_AGENT_LOOPS invocations and dispatches, whatever request_heartbeat is.
C5_AlwaysToolCall ==
    (/\ runtime = "krishna"
     /\ \A i \in DOMAIN script : KrishnaValidCall(script[i])
     /\ RequestOver) =>
        /\ status = "failed_limit"
        /\ invocations = MAX_AGENT_LOOPS
        /\ Len(dispatched) = MAX_AGENT_LOOPS

\* the call keeps the loop going: its parameters are not the schema of the
\* tool, and it asks for a heartbeat or its handler raises
KeepsLooping(reply) ==
    LET call == ReplyCall(reply)
        tool == KrishnaTools[CHOOSE i \in DOMAIN KrishnaTools :
                                KrishnaTools[i].tool_name = call.tool.tool_name]
    IN /\ call.tool.tool_params # tool.tool_params
       /\ \/ call.request_heartbeat
          \/ Call(tool.func, call.tool.tool_params).raised # ""

\* C5 amended: a backend that always sends a valid call of a registered tool,
\* never with the schema as parameters and always with request_heartbeat true
\* or a raising handler, drives KrishnaAgent to the iteration failure after
\* exactly MAX_AGENT_LOOPS invocations and dispatches; a call that succeeds
\* with request_heartbeat false ends the request right after its dispatch.
C5_HeartbeatToolCall ==
    /\ (/\ runtime = "krishna"
        /\ \A i \in DOMAIN script : KrishnaValidCall(script[i]) /\ KeepsLooping(script[i])
        /\ RequestOver) =>
            /\ status = "failed_limit"
            /\ invocations = MAX_AGENT_LOOPS
            /\ Len(dispatched) = MAX_AGENT_LOOPS
    /\ (/\ runtime = "krishna"
        /\ IsTurn
        /\ KrishnaValidCall(last.reply)
        /\ last.called # <<>>
        /\ Call(last.called[1], LastPayload.tool.tool_params).raised = ""
        /\ ~LastPayload.request_heartbeat) =>
            status = "done"

C5_Witness ==
    /\ runtime = "krishna"
    /\ \A i \in DOMAIN script : KrishnaValidCall(script[i]) /\ KeepsLooping(script[i])
    /\ status = "failed_limit"
    /\ Len(dispatched) = MAX_AGENT_LOOPS

\* the handlers registered under a tool name in PlanActObserveAgent
HandlersOf(tool_name) ==
    {PaoTools[i].func : i \in {k \in DOMAIN PaoTools : PaoTools[k].tool_name = tool_name}}

Calls(called, tool_name) ==
    Cardinality({i \in DOMAIN called : called[i] \in HandlersOf(tool_name)})

Answered(prompts, tool_name, answer) ==
    Cardinality({i \in DOMAIN prompts :
                    prompts[i].tool_name = tool_name /\ prompts[i].answer = answer})

PaoToolNames == {PaoTools[i].tool_name : i \in DOMAIN PaoTools}

\* C6: in an iteration of PlanActObserveAgent every handler call belongs to a
\* registered tool whose name was remembered before or whose proposal was
\* answered y or s; without a remembered choice the calls of a tool are
\* exactly its proposals answered y, so a proposal answered n or c calls
\* nothing; a name is remembered only by an answer s for that name.
C6_ApprovalGate ==
    [][(runtime = "pao" /\ last'.op = "turn") =>
        /\ \A i \in DOMAIN last'.called :
              \E t \in PaoToolNames : last'.called[i] \in HandlersOf(t)
        /\ \A t \in PaoToolNames :
              /\ (t \notin user_choices /\ Answered(last'.prompts, t, "s") = 0) =>
                    Calls(last'.called, t) = Answered(last'.prompts, t, "y")
              /\ (t \notin user_choices /\ Calls(last'.called, t) > 0) =>
                    Answered(last'.prompts, t, "y") + Answered(last'.prompts, t, "s") > 0
              /\ t \in user_choices' <=>
                    (t \in user_choices \/ Answered(last'.prompts, t, "s") > 0)
      ]_vars

C6_Witness ==
    /\ runtime = "pao"
    /\ IsTurn
    /\ last.prompts = <<[tool_name |-> "echo", answer |-> "n"],
                        [tool_name |-> "echo", answer |-> "y"]>>
    /\ last.called = <<"echo">>
    /\ user_choices = {}

\* the handler KrishnaAgent called in the last iteration raised
KrishnaHandlerRaised ==
    /\ runtime = "krishna"
    /\ IsTurn
    /\ last.called # <<>>
    /\ Call(last.called[1], LastPayload.tool.tool_params).raised # ""

\* C7: when the handler KrishnaAgent calls raises, TypeError or not, the
\* iteration appends the assistant message and exactly one tool-role message
\* that starts with ERROR[<tool_name>], and the request goes on with action
\* reset, whatever request_heartbeat was.
C7_KrishnaToolError ==
    KrishnaHandlerRaised =>
        /\ status = "running"
        /\ action = None
        /\ Len(last.appended) = 2
        /\ last.appended[1] = Message("assistant", last.reply.content)
        /\ last.appended[2].role = "tool"
        /\ SubSeq(last.appended[2].content, 1, 3)
              = <<"ERROR[", LastPayload.tool.tool_name, "]: ">>
        /\ yielded = <<>> \/ yielded[Len(yielded)] # last.appended[2].content

C7_Witness ==
    /\ KrishnaHandlerRaised
    /\ ~LastPayload.request_heartbeat
    /\ Call(last.called[1], LastPayload.tool.tool_params).raised = "RuntimeError"
    /\ status = "running"

\* the handler PlanActObserveAgent called last in the last iteration raised
PaoHandlerRaised ==
    /\ runtime = "pao"
    /\ IsTurn
    /\ last.called # <<>>
    /\ \E i \in DOMAIN LastPayload.plan :
          /\ last.called[Len(last.called)] \in HandlersOf(LastPayload.plan[i].tool_name)
          /\ Call(last.called[Len(last.called)], LastPayload.plan[i].tool_params).raised # ""

\* C8: an exception of an approved handler does not end the request of
\* PlanActObserveAgent: a history entry follows the assistant message and the
\* loop goes on.
C8_PaoToolErrorRecovers ==
    PaoHandlerRaised =>
        /\ status = "running"
        /\ Len(last.appended) >= 2

\* tool_params of the call is the declared schema of the tool it names
EchoesSchema(tools, call) ==
    \E i \in DOMAIN tools :
        /\ tools[i].tool_name = call.tool_name
        /\ call.params_is_object
        /\ call.tool_params = tools[i].tool_params

LastValidates ==
    IF runtime = "krishna"
    THEN ActionModelValidate(LastPayload)
    ELSE ActionPlanModelValidate(LastPayload)

LastEchoesSchema ==
    /\ IsTurn
    /\ last.reply.is_str
    /\ LastJson # ""
    /\ LastValidates
    /\ IF runtime = "krishna"
       THEN EchoesSchema(KrishnaTools, LastPayload.tool)
       ELSE \E k \in DOMAIN LastPayload.plan : EchoesSchema(PaoTools, LastPayload.plan[k])

\* C9: in either runtime a reply whose tool_params is the schema of the
\* selected tool calls no handler; a corrective message follows the assistant
\* message and the request goes on.
C9_SchemaEchoRejected ==
    LastEchoesSchema =>
        /\ last.called = <<>>
        /\ status = "running"
        /\ Len(last.appended) = 2

LastInvalid ==
    /\ IsTurn
    /\ last.reply.is_str
    /\ LastJson # ""
    /\ ~LastValidates

\* C10: in either runtime a reply whose JSON object fails validation calls no
\* handler, appends one corrective message after the assistant message, and
\* leaves the request running with the loop condition true.
C10_InvalidActionRecovers ==
    LastInvalid =>
        /\ last.called = <<>>
        /\ status = "running"
        /\ Len(last.appended) = 2
        /\ last.appended[1].role = "assistant"
        /\ last.appended[2] = IF runtime = "krishna"
                              THEN Message("system", VALIDATION_NOTICE)
                              ELSE Message("user", VALIDATION_ERROR)
        /\ runtime = "krishna" => LoopContinues(action)

C10_Witness ==
    /\ LastInvalid
    /\ runtime = "pao"
    /\ LastJson = PJ_PARAMS_STR
    /\ status = "running"
    /\ invocations = 2

\* the last reply validates and names no registered tool
LastNamesUnknownTool ==
    /\ IsTurn
    /\ last.reply.is_str
    /\ LastJson # ""
    /\ LastValidates
    /\ IF runtime = "krishna"
       THEN resolve_tool(KrishnaTools, LastPayload.tool.tool_name) = 0
       ELSE /\ LastPayload.plan # <<>>
            /\ \A k \in DOMAIN LastPayload.plan :
                  selected_tool(PaoTools, LastPayload.plan[k].tool_name) = 0

ListsToolNames(content, tools) ==
    \A i \in DOMAIN tools : \E j \in DOMAIN content : content[j] = tools[i].tool_name

\* C11: in either runtime a valid action that names an unregistered tool calls
\* no handler, appends a system message that lists the registered tool names,
\* and leaves the request running.
C11_UnknownToolNotice ==
    LastNamesUnknownTool =>
        /\ last.called = <<>>
        /\ status = "running"
        /\ \E i \in DOMAIN last.appended :
              /\ last.appended[i].role = "system"
              /\ ListsToolNames(last.appended[i].content,
                                IF runtime = "krishna" THEN KrishnaTools ELSE PaoTools)

NonTextReply == IsTurn /\ ~last.reply.is_str

\* C12: in either runtime a reply whose content is not text ends the request
\* in that iteration with no handler called, and the next request can start.
C12_NonTextIsFatal ==
    NonTextReply =>
        /\ RequestOver
        /\ last.called = <<>>
        /\ status \in Ended

----------------------------------------------------------------------------
(* Properties of the conversation file *)

IsPrefix(a, b) == Len(a) <= Len(b) /\ SubSeq(b, 1, Len(a)) = a

IsSuffix(a, b) == Len(a) <= Len(b) /\ SubSeq(b, Len(b) - Len(a) + 1, Len(b)) = a

\* a can be obtained from b by deleting elements
RECURSIVE IsSubsequence(_, _)
IsSubsequence(a, b) ==
    IF a = <<>> THEN TRUE
    ELSE IF b = <<>> THEN FALSE
    ELSE IF Head(a) = Head(b) THEN IsSubsequence(Tail(a), Tail(b))
    ELSE IsSubsequence(a, Tail(b))

\* the messages a reader of the file decodes, in file order
Records(file) == LoadLines(FileLines(file)).messages

\* the text is a run of complete lines, each holding exactly one JSON object
OneObjectPerLine(text) ==
    /\ text # <<>>
    /\ text[Len(text)] = LF
    /\ \A i \in DOMAIN FileLines(text) :
          LET decoded == decode_ndjson_line(FileLines(text)[i])
          IN decoded.ok /\ Len(decoded.payloads) = 1

\* what the step appended to the file
Appended == SubSeq(conversation_file', Len(conversation_file) + 1, Len(conversation_file'))

\* C13: a manager constructed on the file of a persisting manager that added
\* N >= 1 messages and finalized them fetches the same last N messages as
\* that manager, in order and content.
C13_RoundTrip ==
    (/\ runtime = "none"
     /\ persist_to_file
     /\ log_last.op = "construct"
     /\ original.exists
     /\ original.finalized
     /\ original.added >= 1) =>
        fetch_conversation(messages, original.added)
            = fetch_conversation(original.messages, original.added)

\* C14: the cursor of a manager stays between 0 and the length of its log,
\* and no add_message or finalize call lowers it.
C14_CursorBounds ==
    /\ [](0 <= persisted_count /\ persisted_count <= Len(messages))
    /\ [][log_last'.op \in {"add_message", "finalize"} =>
            persisted_count' >= persisted_count]_vars

C14_Witness ==
    /\ runtime = "none"
    /\ log_last.op = "add_message"
    /\ conversation_path = "relative"
    /\ persisted_count = 3
    /\ Len(messages) = 4

\* C15: a finalize call leaves the characters already in the file as they are
\* and appends, in log order, only records of messages beyond the cursor;
\* when it writes, the cursor moves to the end of the log, so no message is
\* written twice.
C15_AppendOnly ==
    [][log_last'.op = "finalize" =>
        /\ IsPrefix(conversation_file, conversation_file')
        /\ IsSubsequence(Records(Appended),
                         SubSeq(messages, persisted_count + 1, Len(messages)))
        /\ Appended # <<>> => persisted_count' = Len(messages)
      ]_vars

C15_Witness ==
    /\ runtime = "none"
    /\ log_last.op = "finalize"
    /\ log_last.wrote
    /\ log_last.added = 2
    /\ persisted_count = Len(messages)
    /\ Records(conversation_file) = <<USER_HI, USER_QUOTED, USER_QUOTED>>

\* C16: a finalize call that follows a finalize call with no add_message in
\* between writes nothing and leaves the file and the cursor as they are.
C16_FinalizeIdempotent ==
    [][(log_last.op = "finalize" /\ log_last'.op = "finalize") =>
        /\ ~log_last'.wrote
        /\ conversation_file' = conversation_file
        /\ persisted_count' = persisted_count
      ]_vars

C16_Witness ==
    /\ runtime = "none"
    /\ persist_to_file
    /\ log_last.op = "finalize"
    /\ ~log_last.wrote
    /\ log_last.added > 0
    /\ persisted_count = Len(messages)
    /\ conversation_file # <<>>

NonSystem(msgs) == SelectSeq(msgs, LAMBDA m : m.role # "system")

C18_OneObjectPerLine ==
    [][(log_last'.op = "finalize" /\ log_last'.wrote) =>
        OneObjectPerLine(
            IF conversation_file # <<>>
                  /\ conversation_file[Len(conversation_file)] # LF
            THEN Tail(Appended)
            ELSE Appended)
      ]_vars

----------------------------------------------------------------------------
(* Properties of the threads *)

InsideSendMessage(manager) ==
    {t \in Threads : InSendMessage(thread_at[t], manager)}

\* C19: no conversation manager has two threads inside send_message calls of
\* its agent at the same time.
C19_OwnManagerPerThread ==
    \A manager \in Managers : Cardinality(InsideSendMessage(manager)) <= 1

----------------------------------------------------------------------------
(* Properties of the token accounting *)

\* C20: after every add_message, under every overflow strategy, total_tokens
\* is the sum of the token counts of the messages the manager holds.
C20_TokenAccounting ==
    total_tokens = SumTokens(token_messages)

C20_Witness ==
    /\ token_last.path = "drop"
    /\ overflow_strategy = "summarize"
    /\ summarizer_func = "raises"
    /\ token_messages # <<>>
    /\ total_tokens > 0

\* the message of the last add_message call, as stored
NewestMessage == token_last.added[Len(token_last.added)]

NewestAloneExceeds ==
    count_message_tokens(NewestMessage) + reserve_tokens > max_tokens

\* C21: after every add_message, under each of the three strategies,
\* total_tokens + reserve_tokens <= max_tokens, unless the message just added
\* exceeds the budget on its own.
C21_TokenBudget ==
    token_last.adds > 0 =>
        \/ total_tokens + reserve_tokens <= max_tokens
        \/ NewestAloneExceeds

UserMessages(msgs) == SelectSeq(msgs, LAMBDA m : m.role = "user")

\* C22: every user-role message handed to add_message is still in the log,
\* in the order of the calls, after any sequence of add_message calls and
\* under every overflow strategy.
C22_UserMessagesKept ==
    IsSubsequence(UserMessages(token_last.added), token_messages)

\* the log the overflow pass of the step starts from: the log before the
\* call and the message the call appended
LogAtOverflow == Append(token_messages, token_last'.added[Len(token_last'.added)])

\* the step is an add_message whose overflow pass runs the summarize policy
\* with a summarizer that returns and at least 4 messages
SummarizePassRuns ==
    /\ token_last'.adds = token_last.adds + 1
    /\ overflow_strategy = "summarize"
    /\ summarizer_func = "returns"
    /\ Len(LogAtOverflow) >= 4
    /\ SumTokens(LogAtOverflow) + reserve_tokens > max_tokens

\* C23: an overflow pass of the summarize policy, with a summarizer that
\* returns and at least 4 messages, leaves one system-role summary message
\* followed by a contiguous suffix of the previous log, so the summarized
\* messages are the older prefix.
C23_SummarizeKeepsSuffix ==
    [][SummarizePassRuns =>
        /\ token_messages' # <<>>
        /\ token_messages'[1].role = "system"
        /\ token_messages'[1].content[1] = SUMMARY[1]
        /\ IsSuffix(Tail(token_messages'), LogAtOverflow)
        /\ Len(Tail(token_messages')) < Len(LogAtOverflow)
      ]_vars

\* the step is an add_message whose overflow pass runs the summarize policy
\* without a summarizer, with fewer than 4 messages or with a summarizer
\* that raises
SummarizeFallsBack ==
    /\ token_last'.adds = token_last.adds + 1
    /\ overflow_strategy = "summarize"
    /\ SumTokens(LogAtOverflow) + reserve_tokens > max_tokens
    /\ \/ summarizer_func = "none"
       \/ summarizer_func = "raises"
       \/ Len(LogAtOverflow) < 4

\* C24: an overflow pass of the summarize policy without a summarizer, with
\* fewer than 4 messages or with a summarizer that raises pops messages from
\* the front until total_tokens <= max_tokens - reserve_tokens and no
\* further: the log is the longest suffix of the previous log that fits (or
\* is empty), and no summary message is inserted.
C24_SummarizeFallback ==
    [][SummarizeFallsBack =>
        LET popped == Len(LogAtOverflow) - Len(token_messages')
            target_tokens == max_tokens - reserve_tokens
        IN /\ IsSuffix(token_messages', LogAtOverflow)
           /\ total_tokens' = SumTokens(token_messages')
           /\ total_tokens' <= target_tokens \/ token_messages' = <<>>
           /\ popped >= 1
           /\ SumTokens(SubSeq(LogAtOverflow, popped, Len(LogAtOverflow)))
                 > target_tokens
      ]_vars

C24_Witness ==
    /\ overflow_strategy = "summarize"
    /\ summarizer_func = "raises"
    /\ token_last.path = "drop"
    /\ token_last.adds >= 5
    /\ Len(token_messages) >= 4
    /\ token_messages[1].role # "system"

----------------------------------------------------------------------------
(* Properties of the heartbeat, the feedback and the approvals *)

\* the last iteration of KrishnaAgent called a handler that returned
KrishnaDispatched ==
    /\ runtime = "krishna"
    /\ IsTurn
    /\ last.called # <<>>
    /\ Call(last.called[1], LastPayload.tool.tool_params).raised = ""

\* the last iteration of KrishnaAgent got a text reply and no handler returned
KrishnaRejected ==
    /\ runtime = "krishna"
    /\ IsTurn
    /\ last.reply.is_str
    /\ ~KrishnaDispatched

\* C25: after a handler returned, the loop of KrishnaAgent goes on if and
\* only if request_heartbeat of the action is true, and the request is over
\* when it is false; after a text reply that is rejected or whose handler
\* raises the loop goes on whatever the flag.  A loop that goes on makes a
\* model invocation as its next step, up to the bound of C1; a request that
\* is over makes none.
C25_Heartbeat ==
    /\ [](KrishnaDispatched =>
            /\ status = "running" <=> LastPayload.request_heartbeat
            /\ status = "done" <=> ~LastPayload.request_heartbeat)
    /\ [](KrishnaRejected => status = "running")
    /\ [][(runtime = "krishna" /\ IsTurn) =>
            IF status = "running"
            THEN /\ requests' = requests
                 /\ \/ invocations' = invocations + 1
                    \/ turn_counter = MAX_AGENT_LOOPS /\ status' = "failed_limit"
            ELSE requests' = requests + 1 /\ invocations' = 0
         ]_vars

C25_Witness ==
    /\ KrishnaRejected
    /\ LastJson = KJ_NOPE_F
    /\ status = "running"
    /\ invocations = 2
    /\ script[1] = WithJson(KJ_ADD_T)

\* the step is an iteration of KrishnaAgent whose handler returned
DispatchStep ==
    /\ runtime = "krishna"
    /\ last'.op = "turn"
    /\ last'.called # <<>>
    /\ Call(last'.called[1],
            json_loads(extract_json_from_text(last'.reply.content)).tool.tool_params
           ).raised = ""

DispatchedName ==
    json_loads(extract_json_from_text(last'.reply.content)).tool.tool_name

\* the step appended the assistant message and one tool-role message
FeedbackPersisted ==
    /\ Len(last'.appended) = 2
    /\ last'.appended[1].role = "assistant"
    /\ last'.appended[2].role = "tool"
    /\ messages' = messages \o last'.appended

\* the step handed the content of that tool-role message to the caller
FeedbackSurfaced == yielded' = Append(yielded, last'.appended[2].content)

\* C26 as stated: every dispatch of KrishnaAgent whose handler returns
\* appends the feedback as one tool-role message, and hands it to the caller
\* if and only if the tool is neither print_message nor send_message,
\* whatever the handler returned.
C26_FeedbackSurfaced ==
    [][DispatchStep =>
        /\ FeedbackPersisted
        /\ IF DispatchedName \notin {"print_message", "send_message"}
           THEN FeedbackSurfaced
           ELSE yielded' = yielded
      ]_vars

\* C26 amended: every dispatch of KrishnaAgent whose handler returns appends
\* the feedback as one tool-role message, and hands it to the caller if and
\* only if the tool is neither print_message nor send_message and the
\* feedback is not the empty string.
C26_FeedbackSurfacedNonEmpty ==
    [][DispatchStep =>
        /\ FeedbackPersisted
        /\ IF /\ DispatchedName \notin {"print_message", "send_message"}
              /\ last'.appended[2].content # <<>>
           THEN FeedbackSurfaced
           ELSE yielded' = yielded
      ]_vars

C26_Witness ==
    /\ KrishnaDispatched
    /\ LastJson = KJ_ECHO_EMPTY
    /\ last.appended[2] = Message("tool", <<>>)
    /\ invocations = 2
    /\ yielded = <<<<"5">>>>
    /\ dispatched = <<"add", "echo">>

\* the plan of the reply the step of PlanActObserveAgent received
StepPlan == json_loads(extract_json_from_text(last'.reply.content)).plan

\* the step is an iteration of PlanActObserveAgent that runs a plan
PlanRuns ==
    /\ runtime = "pao"
    /\ last'.op = "turn"
    /\ last'.reply.is_str
    /\ extract_json_from_text(last'.reply.content) # ""
    /\ ActionPlanModelValidate(json_loads(extract_json_from_text(last'.reply.content)))

\* the step went through its whole plan: no exception left the for loop
PlanCompleted ==
    /\ status' = "running"
    /\ last'.appended[Len(last'.appended)] # Message("user", VALIDATION_ERROR)

Proposals(plan, tool_name) ==
    Cardinality({i \in DOMAIN plan : plan[i].tool_name = tool_name})

PromptsFor(prompts, tool_name) ==
    Cardinality({i \in DOMAIN prompts : prompts[i].tool_name = tool_name})

\* C27: a tool name answered approve-and-remember stays remembered in the
\* agent instance; a proposal of a remembered name is never presented to
\* the approver and its handler is called, in the rest of the plan, in later
\* iterations and in later send_message calls; a proposal of a registered
\* name that is not remembered is presented to the approver.
C27_RememberedApproval ==
    [][PlanRuns =>
        /\ user_choices \subseteq user_choices'
        /\ StepPlan # <<>> =>
              LET first == StepPlan[1].tool_name
              IN /\ first \in user_choices =>
                      /\ last'.called # <<>>
                      /\ last'.called[1] \in HandlersOf(first)
                 /\ (first \in PaoToolNames \ user_choices) =>
                      /\ last'.prompts # <<>>
                      /\ last'.prompts[1].tool_name = first
        /\ \A t \in PaoToolNames :
              /\ t \in user_choices => PromptsFor(last'.prompts, t) = 0
              /\ Answered(last'.prompts, t, "s") <= 1
              /\ \A i \in DOMAIN last'.prompts :
                    (last'.prompts[i].tool_name = t /\ last'.prompts[i].answer = "s") =>
                        \A j \in DOMAIN last'.prompts :
                            j > i => last'.prompts[j].tool_name # t
              /\ (PlanCompleted /\ t \in user_choices) =>
                    Calls(last'.called, t) = Proposals(StepPlan, t)
              /\ (PlanCompleted /\ t \notin user_choices) =>
                    IF Answered(last'.prompts, t, "s") = 1
                    THEN Calls(last'.called, t)
                            = Answered(last'.prompts, t, "y") + 1
                              + Proposals(StepPlan, t) - PromptsFor(last'.prompts, t)
                    ELSE PromptsFor(last'.prompts, t) = Proposals(StepPlan, t)
      ]_vars

\* a second send_message call dispatches a remembered tool without a prompt
C27_Witness ==
    /\ runtime = "pao"
    /\ requests = 2
    /\ IsTurn
    /\ user_choices = {"fail"}
    /\ asks = 1
    /\ last.prompts = <<>>
    /\ last.called = <<"fail">>

AnsweredAny(prompts, answer) ==
    Cardinality({i \in DOMAIN prompts : prompts[i].answer = answer})

RegisteredProposals(plan) ==
    Cardinality({i \in DOMAIN plan : plan[i].tool_name \in PaoToolNames})

\* C28: in an iteration of PlanActObserveAgent every answer
\* deny-with-correction adds the correction to the log as one user-role
\* message and calls no handler: the corrections in the log are as many as
\* those answers, and every proposal of a registered tool ends in one
\* handler call, one correction or one denial.
C28_CorrectionIsUserTurn ==
    [][PlanRuns =>
        /\ Count(last'.appended, Message("user", Correction))
              = AnsweredAny(last'.prompts, "c")
        /\ messages' = messages \o last'.appended
        /\ Len(last'.called) + AnsweredAny(last'.prompts, "c")
              + AnsweredAny(last'.prompts, "n") <= RegisteredProposals(StepPlan)
        /\ PlanCompleted =>
              Len(last'.called) + AnsweredAny(last'.prompts, "c")
                + AnsweredAny(last'.prompts, "n") = RegisteredProposals(StepPlan)
        /\ (\A i \in DOMAIN last'.prompts : last'.prompts[i].answer = "c") =>
              last'.called = <<>> \/ user_choices # {}
      ]_vars

C28_Witness ==
    /\ runtime = "pao"
    /\ IsTurn
    /\ LastJson = PJ_ECHO2
    /\ last.prompts = <<[tool_name |-> "echo", answer |-> "c"],
                        [tool_name |-> "echo", answer |-> "y"]>>
    /\ last.called = <<"echo">>
    /\ Len(last.appended) = 3
    /\ last.appended[2] = Message("user", Correction)
    /\ last.appended[3].role = ToolUseRole

\* messages a request of KrishnaAgent that ends with the iteration failure
\* appends: the user message, two per model invocation, the failure
LimitRequestLength == 2 * MAX_AGENT_LOOPS + 2

\* the log ends with the messages of such a request, in the order they were
\* appended
EndsWithLimitRequest(msgs) ==
    /\ Len(msgs) >= LimitRequestLength
    /\ LET start == Len(msgs) - LimitRequestLength + 1
       IN /\ msgs[start] = Message("user", USER_TEXT)
          /\ \A k \in 1..MAX_AGENT_LOOPS :
                /\ msgs[start + 2 * k - 1].role = "assistant"
                /\ msgs[start + 2 * k].role \in {"system", "tool"}
          /\ msgs[Len(msgs)] = Message("system", ITERATION_FAILURE)

\* C29: every step of KrishnaAgent appends to the log and removes nothing;
\* when a request ends with the iteration failure the log ends with every
\* message of that request in order; the next send_message starts with the
\* counter at zero, and it ends with the iteration failure only after
\* MAX_AGENT_LOOPS model invocations of its own.
C29_ReusableAfterLimit ==
    /\ []((runtime = "krishna" /\ status = "failed_limit") =>
            /\ EndsWithLimitRequest(messages)
            /\ invocations = MAX_AGENT_LOOPS
            /\ Len(messages) >= requests + 2 * MAX_AGENT_LOOPS + 1)
    /\ [][runtime = "krishna" =>
            /\ messages' = messages \o last'.appended
            /\ (status = "failed_limit" /\ requests' = requests + 1) =>
                  /\ status' = "running"
                  /\ turn_counter' = 0
                  /\ invocations' = 0
                  /\ action' = None
                  /\ last'.appended = <<Message("user", USER_TEXT)>>
         ]_vars

C29_Witness ==
    /\ runtime = "krishna"
    /\ requests = 2
    /\ status = "failed_limit"
    /\ invocations = MAX_AGENT_LOOPS
    /\ calls = 2 * MAX_AGENT_LOOPS
    /\ Len(messages) = 2 * LimitRequestLength

----------------------------------------------------------------------------
(* Properties of fetch_conversation *)

\* C30: for every window_size >= 0, fetch_conversation(window_size) of a
\* SlidingWindowConversationManager returns at most window_size messages,
\* none of them of role system, and they are the last ones of the
\* non-system messages of the log, in log order.
C30_FetchWindow ==
    runtime = "none" =>
        \A window_size \in 0..MaxWindow :
            LET fetched == fetch_conversation(messages, window_size)
            IN /\ Len(fetched) <= window_size
               /\ \A i \in DOMAIN fetched : fetched[i].role # "system"
               /\ IsSuffix(fetched, NonSystem(messages))

Min(a, b) == IF a <= b THEN a ELSE b

\* the manager is the in-memory variant
InMemory == runtime = "none" /\ ~persist_to_file

\* what add_message, finalize and the constructor do to an in-memory
\* manager: add_message keeps every earlier message, finalize and the
\* constructor leave the file and the cursor alone and load nothing
InMemoryFrame ==
    /\ log_last'.op = "add_message" =>
          /\ IsPrefix(messages, messages')
          /\ Len(messages') = Len(messages) + 1
    /\ log_last'.op = "finalize" =>
          /\ ~log_last'.wrote
          /\ conversation_file' = conversation_file
          /\ persisted_count' = persisted_count
          /\ messages' = messages
    /\ log_last'.op = "construct" =>
          /\ conversation_file' = conversation_file
          /\ messages' = <<>>

DeclaredOptional(annotation) == annotation.form \in {"Optional[str]", "str | None"}

\* the parameters of the callable, the receiver aside, that have no default and are
\* not declared optional
NoDefaultNotOptional ==
    SelectSeq(tool_func, LAMBDA param : /\ param.name # "self"
                                   /\ ~param.has_default
                                   /\ ~DeclaredOptional(param.annotation))

\* C32: the schema Tool derives lists under required exactly the parameters
\* that have no default and are not declared optional, and has no required
\* key when there is none.
C32_RequiredList ==
    derived # <<>> =>
        LET names == [i \in DOMAIN NoDefaultNotOptional |-> NoDefaultNotOptional[i].name]
        IN IF names = <<>>
           THEN "required" \notin DOMAIN derived[1]
           ELSE /\ "required" \in DOMAIN derived[1]
                /\ derived[1].required = names

\* the tools registered under a name, in registration order
Registered(tools, tool_name) ==
    SelectSeq(tools, LAMBDA tool : tool.tool_name = tool_name)

FirstRegistered(tools, tool_name) == Registered(tools, tool_name)[1]

LastRegistered(tools, tool_name) ==
    Registered(tools, tool_name)[Len(Registered(tools, tool_name))]

\* the names a plan proposes that are registered in PlanActObserveAgent
ProposedNames(plan) ==
    {plan[k].tool_name : k \in DOMAIN plan} \cap PaoToolNames

\* C33 as stated: a tool call by a name that two registered tools share is
\* dispatched to the handler of the tool registered last.
C33_LastRegistrationWins ==
    [][last'.op = "turn" /\ last'.called # <<>> =>
          IF runtime = "krishna"
          THEN last'.called[1] = LastRegistered(KrishnaTools, DispatchedName).func
          ELSE \A i \in DOMAIN last'.called :
                  last'.called[i] \in
                      {LastRegistered(PaoTools, name).func : name \in ProposedNames(StepPlan)}
      ]_vars

\* C33 amended: a tool call by a name that two registered tools share is
\* dispatched to the handler of the tool registered first.
C33_FirstRegistrationWins ==
    [][last'.op = "turn" /\ last'.called # <<>> =>
          IF runtime = "krishna"
          THEN last'.called[1] = FirstRegistered(KrishnaTools, DispatchedName).func
          ELSE \A i \in DOMAIN last'.called :
                  last'.called[i] \in
                      {FirstRegistered(PaoTools, name).func : name \in ProposedNames(StepPlan)}
      ]_vars

C33_Witness ==
    /\ runtime = "krishna"
    /\ IsTurn
    /\ LastPayload.tool.tool_name = "echo"
    /\ Len(Registered(KrishnaTools, "echo")) = 2
    /\ last.called = <<echo.func>>
    /\ echo_again.func # echo.func

Blank(text) == \A i \in DOMAIN text : IsSpace(text[i])

\* sent is text without the whitespace at its ends
Trimmed(text, sent) ==
    /\ sent # <<>>
    /\ ~IsSpace(sent[1])
    /\ ~IsSpace(sent[Len(sent)])
    /\ \E a, b \in 0..Len(text) :
          /\ a + Len(sent) + b = Len(text)
          /\ SubSeq(text, a + 1, a + Len(sent)) = sent
          /\ Blank(SubSeq(text, 1, a))
          /\ Blank(SubSeq(text, Len(text) - b + 1, Len(text)))

\* the inputs prompt() returned that are not blank, in order
Forwardable ==
    SelectSeq(main_log, LAMBDA ev : ev.e = "prompt" /\ ev.x = "" /\ ~Blank(ev.v))

\* the calls of planner_agent.send_message, in order
Sent == SelectSeq(main_log, LAMBDA ev : ev.e = "send_message")

\* C34: main() never forwards an empty or whitespace-only input, forwards
\* every other input to planner_agent.send_message exactly once and in input
\* order, and prints the result right after the call, before it prompts again.
C34_ForwardedOnce ==
    /\ Len(Sent) = Len(Forwardable)
    /\ \A i \in DOMAIN Sent : Trimmed(Forwardable[i].v, Sent[i].v)
    /\ \A i \in DOMAIN main_log :
          (main_log[i].e = "send_message" /\ main_log[i].x = "returned") =>
              /\ i + 1 <= Len(main_log)
              /\ main_log[i + 1] = Event("print", Result(main_log[i].v), "")

C34_Witness ==
    /\ Prompted(main_log) = 3
    /\ Len(SelectSeq(main_log, LAMBDA ev : ev.e = "prompt" /\ ev.x = "" /\ Blank(ev.v))) = 1
    /\ Len(Sent) = 2
    /\ \A i \in DOMAIN Sent : Sent[i].x = "returned"
    /\ \E i \in DOMAIN Forwardable : Forwardable[i].v # Strip(Forwardable[i].v)

\* the last call main() made before it stopped or now
LastCall ==
    LET calls_made == SelectSeq(main_log, LAMBDA ev : ev.e # "print")
    IN calls_made[Len(calls_made)]

\* main() printed the goodbye message last
SaidGoodbye ==
    /\ main_log # <<>>
    /\ main_log[Len(main_log)] = Event("print", GOODBYE, "")

\* every call of send_message that an exception of the given kinds left is
\* followed by the error message, and main() went on
ErrorsSurvived(kinds) ==
    \A i \in DOMAIN main_log :
        (main_log[i].e = "send_message" /\ main_log[i].x \in kinds) =>
            /\ i + 1 <= Len(main_log)
            /\ main_log[i + 1] = Event("print", ErrorText(main_log[i].x), "")
            /\ (i + 1 = Len(main_log) => main_at = "loop")

StopReturns ==
    /\ Len(registry_log') = Len(registry_log) + 1
    /\ registry_log'[Len(registry_log')].op = "stop_watcher"

StopReturned == registry_log'[Len(registry_log')]

\* calls of stop_watcher for the id that returned True
TrueStops(watcher_id) ==
    Cardinality({i \in DOMAIN registry_log :
                    /\ registry_log[i].op = "stop_watcher"
                    /\ registry_log[i].id = watcher_id
                    /\ registry_log[i].result})

\* C36: stop_watcher(id) returns True exactly when id is in the registry, and
\* then the watcher is stopped and removed; otherwise it returns False and
\* leaves the registry alone; however the threads interleave their calls of
\* start_watcher, stop_watcher and stop_all_watchers, the observer of every
\* watcher is stopped at most once and at most one stop_watcher call for an
\* id returns True.
C36_StopOnce ==
    /\ [](\A w \in Watchers : observers[w].stops <= 1 /\ TrueStops(w) <= 1)
    /\ [][StopReturns =>
            /\ StopReturned.result <=> StopReturned.id \in watchers
            /\ StopReturned.result =>
                  /\ watchers' = watchers \ {StopReturned.id}
                  /\ ~observers'[StopReturned.id].is_running
                  /\ observers'[StopReturned.id].stops = 1
            /\ ~StopReturned.result =>
                  /\ watchers' = watchers
                  /\ observers' = observers
       ]_vars

\* two threads called stop_watcher for the same running watcher: the first
\* to take the lock got True, the other False
C36_Witness ==
    \E i, j \in DOMAIN registry_log :
        /\ i < j
        /\ registry_log[i].op = "stop_watcher"
        /\ registry_log[j].op = "stop_watcher"
        /\ registry_log[i].id = registry_log[j].id
        /\ registry_log[i].thread # registry_log[j].thread
        /\ registry_log[i].result
        /\ ~registry_log[j].result
        /\ \E k \in DOMAIN registry_log : registry_log[k].op = "stop_all_watchers"

\* PlanActObserveAgent.send_message returned a final answer
PaoReturned == runtime = "pao" /\ status = "returned"

\* the lines of the file are the serialized messages, in order
HoldsExactly(file, msgs) ==
    FileLines(file) = [i \in DOMAIN msgs |-> model_dump_json(msgs[i])]

\* C37: when PlanActObserveAgent.send_message returns a final answer with a
\* persisting SlidingWindowConversationManager, the final assistant message
\* is the last message of the log, the cursor of finalize is at the end of
\* the log and every non-system message of the log is in the file.
C37_FinalAnswerPersisted ==
    (PaoReturned /\ persist_to_file) =>
        /\ messages # <<>>
        /\ messages[Len(messages)] = Message("assistant", final_output)
        /\ persisted_count = Len(messages)
        /\ HoldsExactly(conversation_file, NonSystem(messages))

\* the second request returns a final answer after a first one that an
\* exception left without finalize
C37_Witness ==
    /\ PaoReturned
    /\ persist_to_file
    /\ requests = 2
    /\ Len(messages) >= 4
    /\ \E i \in DOMAIN messages : messages[i].role = ToolUseRole
    /\ Count([i \in DOMAIN messages |-> messages[i].role], "assistant") >= 2
    /\ HoldsExactly(conversation_file, messages)

\* the message the step handed to add_message, as stored
AddedMessage == token_last'.added[Len(token_last'.added)]

\* total_tokens after the step's message is counted as the sum of its
\* parts, before the overflow policy
CountedTotal ==
    total_tokens + EncodedLength(AddedMessage.content)
        + EncodedLength(<<AddedMessage.role>>) + FORMATTING_OVERHEAD

\* C38: add_message of TokenAwareConversationManager raises total_tokens by
\* the tokens of the content, the tokens of the role and 4 for every message
\* created without a token count, and runs the overflow policy as soon as
\* total_tokens plus the reserve exceeds max_tokens.
C38_CountedOnAdd ==
    [][(token_last'.adds = token_last.adds + 1
          /\ AddedMessage.token_count = DEFAULT_TOKEN_COUNT) =>
            IF CountedTotal + reserve_tokens > max_tokens
            THEN token_last'.path # "none"
            ELSE /\ token_last'.path = "none"
                 /\ total_tokens' = CountedTotal
      ]_vars

\* position in the log of the user message of the current request
RequestStart ==
    CHOOSE i \in DOMAIN messages :
        /\ messages[i].role = "user"
        /\ \A j \in DOMAIN messages : messages[j].role = "user" => j <= i

\* the messages the current request appended
RequestLog == SubSeq(messages, RequestStart, Len(messages))

\* the current request ended on the iteration limit or on a non-textual reply
EndedInFailure == status \in {"failed_limit", "failed_nontext"}

\* replies of the backend in the current request that were text
TextualReplies == invocations - (IF status = "failed_nontext" THEN 1 ELSE 0)

Corrective == {"system", "tool"}

\* C39: in the log of KrishnaAgent every request starts with its user
\* message, every assistant message is followed at once by one system-role
\* or tool-role message, and a request with k textual replies has appended
\* 1 + 2k messages, plus one system failure message when it ended on the
\* iteration limit or on a non-textual reply.
C39_LogShape ==
    (runtime = "krishna" /\ requests > 0) =>
        /\ messages[1].role = "user"
        /\ Count([i \in DOMAIN messages |-> messages[i].role], "user") = requests
        /\ \A i \in DOMAIN messages :
              messages[i].role = "assistant" =>
                  /\ i < Len(messages)
                  /\ messages[i + 1].role \in Corrective
                  /\ i + 2 <= Len(messages) =>
                        \/ messages[i + 2].role \in {"assistant", "user"}
                        \/ messages[i + 2] \in {append_system_message(ITERATION_FAILURE),
                                                append_system_message(NON_TEXT_FAILURE)}
        /\ Len(RequestLog) = 1 + 2 * TextualReplies + (IF EndedInFailure THEN 1 ELSE 0)
        /\ \A k \in 1..TextualReplies :
              /\ RequestLog[2 * k].role = "assistant"
              /\ RequestLog[2 * k + 1].role \in Corrective
        /\ EndedInFailure =>
              RequestLog[Len(RequestLog)] \in {append_system_message(ITERATION_FAILURE),
                                               append_system_message(NON_TEXT_FAILURE)}

\* a request that got a dispatch, then only rejected replies, and ended on
\* the iteration limit
C39_Witness ==
    /\ runtime = "krishna"
    /\ status = "failed_limit"
    /\ TextualReplies = MAX_AGENT_LOOPS
    /\ Len(RequestLog) = 2 + 2 * MAX_AGENT_LOOPS
    /\ RequestLog[3].role = "tool"
    /\ RequestLog[5].role = "system"

\* the tokens of a message counted from its content and role
Weight(message) ==
    EncodedLength(message.content) + EncodedLength(<<message.role>>) + FORMATTING_OVERHEAD

\* the last add_message ran a summarize pass that inserted the summary
SummaryInserted == token_last.path = "summary"

\* no window of fetch_conversation holds a system-role or tool-role message
FetchSkipsSystemAndTool ==
    \A window_size \in 0..MaxWindow :
        LET fetched == token_fetch_conversation(token_messages, window_size)
        IN \A i \in DOMAIN fetched : fetched[i].role \notin {"system", "tool"}

\* C40: fetch_conversation of TokenAwareConversationManager never returns a
\* system-role or tool-role message; after a summarize pass the summary
\* message is in the log, its tokens are part of total_tokens, and no fetch
\* result holds it.
C40_SummaryCountedNotFetched ==
    /\ FetchSkipsSystemAndTool
    /\ SummaryInserted =>
          /\ token_messages[1] = summary_message
          /\ total_tokens = Weight(summary_message) + SumTokens(Tail(token_messages))

====
